---------------------------- MODULE Spec2Model ----------------------------
(***************************************************************************)
(* WebSocket system handle: the Endpoint routing core (src/src/Endpoint.cpp)*)
(* and the Client that drives it (src/src/Client.cpp).                      *)
(*                                                                          *)
(* Threads.  The transport runs one I/O worker; every connection callback   *)
(* (_handle_opening, _handle_close, _handle_failed_connection,              *)
(* _handle_tcp_message) runs on it, one at a time.  Host operations         *)
(* (spin_once, subscribe, startup_advertisement, runtime_advertisement,     *)
(* publish, call_service, ...) run on host threads and interleave with the  *)
(* worker.  A worker callback is one action.  The transport changes a       *)
(* connection's state before it invokes the matching callback, so the state *)
(* change and the callback are two steps with host steps allowed between.   *)
(* publish and call_service take several steps (their loop and their        *)
(* critical section), so that the worker can run in the middle of them.     *)
(* The routing tables carry no lock (only the call id counter does); one    *)
(* operation on one container (find, operator[], insert, erase) is taken as *)
(* one indivisible step, and a loop over a container that another thread    *)
(* changes meanwhile meets the container as it is at each of its steps.     *)
(*                                                                          *)
(* Transport (websocketpp, outside this repository): connection::send puts  *)
(* a frame on the wire only while the connection is open and returns an     *)
(* error otherwise; frames leave in the order of the send calls.            *)
(* The TCP and the TLS variant of every code path are the same code on      *)
(* parallel fields (_tcp_connection / _tls_connection); the model has one.  *)
(***************************************************************************)
EXTENDS Integers, Sequences, FiniteSets, TLC

(* ------------------------------ bounds --------------------------------- *)
\* connection objects the client may create in one run
MaxConns == 2
\* the clock stops at MaxTime seconds
MaxTime == 3
\* registrations that append to the startup log
MaxStartup == 2
\* frames recorded on a connection ahead of its startup replay
MaxEarly == 1
\* service calls in one run
MaxCalls == 2

(* ------------------------- program constants --------------------------- *)
\* spin_once re-dials when more than 2 s passed since the last attempt
ReconnectDelay == 2
\* Endpoint::Endpoint: _next_service_call_id(1)
FirstCallId == 1

(* ------------------------------ domains -------------------------------- *)
Conns == 1..MaxConns
Topics == {"t1"}
Types == {"A", "B"}
Services == {"s1"}
SubIds == {"", "i1"}
HostThreads == {"h1", "h2"}
\* the request and reply type of a service, as a peer advertises them
ServiceTypes == {<<"A", "B">>, <<"B", "A">>}
\* the null shared_ptr / null connection pointer
NoConn == 0
\* message_type == nullptr in a subscription request
NoType == ""

VARIABLES
    \* ---- Client (Client.cpp 726-738)
    _tcp_connection,            \* the current connection object, or NoConn
    _last_connection_attempt,
    _has_spun_once,
    _connection_failed,
    \* ---- transport and clock
    conn_state,                 \* per connection object: none/connecting/open/closed
    handler_pending,            \* the callback the worker still owes a connection
    now,                        \* steady_clock::now(), in seconds
    \* ---- Endpoint (Endpoint.cpp)
    _startup_messages,
    _topic_subscribe_info,
    _topic_publish_info,
    _client_proxy_info,
    _service_provider_info,
    _service_request_info,
    _next_service_call_id,
    _next_service_call_id_mutex, \* the holder of the mutex, or "free"
    \* ---- host threads running publish / call_service
    pc,
    frame,                      \* the running operation's locals
    \* ---- what the environment observes
    early,                      \* frames put on a connection ahead of its startup replay
    replay_done,                \* connections whose opened event has been handled
    replayed,                   \* the startup messages replayed on each connection
    last_advert,                \* type of the last advertisement received, per topic and
                                \* connection, while the connection is live
    allocated,                  \* the calls in the order their ids were allocated, each
                                \* with the connection its frame was sent on
    answered,                   \* per allocated id: the responses received with it since
                                \* (0, 1, or 2 for two and more)
    delivered,                  \* per allocated id: the receive_response invocations
                                \* (the first two)
    close_handled,              \* per connection whose closed event has been handled:
                                \* the topics it was listening to
    _closing_down,              \* Client::_closing_down
    shutdown_pc,                \* where the host is in Client::~Client: "alive" before it
                                \* is called, then "close", "poll", "stop", "done"
    shutdown_elapsed,           \* milliseconds since start_time in the polling loop
    failure_run,                \* a connect attempt has failed since the last opening
                                \* of the current connection
    crashed,                    \* the process died on a null pointer dereference; it
                                \* takes no step afterwards
    configuration,              \* the YAML configuration given to Endpoint::configure
    configured,                 \* how Endpoint::configure ended: "none" before the call,
                                \* then "true", "false" or "throws"
    _encoding,                  \* Endpoint::_encoding: "null" or "json"
    _use_security,              \* Endpoint::_use_security
    _tcp_endpoint,              \* Endpoint::_tcp_endpoint: "null" or "endpoint"
    _tls_endpoint,              \* Endpoint::_tls_endpoint: "null" or "endpoint"
    call_handles,               \* the call handles the host's request callback was given
    declared,                   \* per listener (topic, connection) recorded while the
                                \* requests' types are observed: the type its last
                                \* recorded subscription request declared
                                \* and the host has not answered yet
    last                        \* what the step just taken did

client_vars == <<_tcp_connection, _last_connection_attempt, _has_spun_once, _connection_failed>>
transport_vars == <<conn_state, handler_pending, now>>
topic_vars == <<_topic_subscribe_info, _topic_publish_info>>
service_vars == <<_client_proxy_info, _service_provider_info>>
call_vars == <<_service_request_info, _next_service_call_id, _next_service_call_id_mutex>>
thread_vars == <<pc, frame>>
replay_vars == <<early, replay_done, replayed>>
shutdown_vars == <<_closing_down, shutdown_pc, shutdown_elapsed>>
config_vars == <<configuration, configured, _encoding, _use_security, _tcp_endpoint,
                 _tls_endpoint>>
request_vars == <<call_handles, declared>>
ghost_vars == <<last_advert, allocated, answered, delivered, close_handled, failure_run, crashed>>
vars == <<client_vars, transport_vars, _startup_messages, topic_vars, service_vars,
          call_vars, thread_vars, replay_vars, shutdown_vars, config_vars, request_vars,
          ghost_vars, last>>

(* ------------------------------ helpers -------------------------------- *)
\* std::unordered_map::operator[] / insert_or_assign
Put(f, k, v) == [x \in (DOMAIN f) \cup {k} |-> IF x = k THEN v ELSE f[x]]
\* std::unordered_map::erase(key)
Remove(f, k) == [x \in (DOMAIN f) \ {k} |-> f[x]]
EmptyMap == [x \in {} |-> 0]

IsPrefix(s, t) == Len(s) <= Len(t) /\ \A i \in 1..Len(s) : s[i] = t[i]

\* the (topic, connection) pairs of the listeners a publish table holds
ListenerPairs(table) ==
    {<<t, c>> : t \in DOMAIN table, c \in Conns} \cap
    UNION {{<<t, c>> : c \in DOMAIN table[t].listeners} : t \in DOMAIN table}

\* the declared types once the publish table has become `table`: the listener the
\* handler has just recorded takes the type of its request, the others keep theirs,
\* and a listener the table has lost is forgotten
declared_after(table, topic_name, connection_handle, message_type, recorded) ==
    LET observed == DOMAIN declared \cup
                    (IF recorded THEN {<<topic_name, connection_handle>>} ELSE {})
    IN  [p \in ListenerPairs(table) \cap observed |->
            IF recorded /\ p = <<topic_name, connection_handle>>
            THEN message_type ELSE declared[p]]

\* the step just taken did nothing the observers record
NoEvent == [op |-> "none", topic |-> "", conn |-> NoConn, type |-> "", id |-> <<>>,
            invoked |-> <<>>, sends |-> <<>>, targets |-> {}, visited |-> {}, strays |-> {},
            before |-> EmptyMap, empty |-> FALSE, service |-> "", client |-> "",
            call_handle |-> <<>>, n |-> 0, threw |-> "", reply |-> "",
            first |-> FALSE, elapsed |-> 0, state |-> "", returned |-> FALSE,
            payload |-> <<>>]

\* std::to_string(std::size_t): the decimal digits, most significant first
Digit(d) == CASE d = 0 -> "0" [] d = 1 -> "1" [] d = 2 -> "2" [] d = 3 -> "3" [] d = 4 -> "4"
              [] d = 5 -> "5" [] d = 6 -> "6" [] d = 7 -> "7" [] d = 8 -> "8" [] d = 9 -> "9"
RECURSIVE to_string(_)
to_string(n) == IF n < 10 THEN <<Digit(n)>> ELSE to_string(n \div 10) \o <<Digit(n % 10)>>

(* --------------------------- wire encoding ----------------------------- *)
\* Encoding::encode_*_msg: the frame as the tuple of the fields it carries
encode_subscribe_msg(topic, type, id) == <<"subscribe", topic, type, id>>
encode_advertise_msg(topic, type, id) == <<"advertise", topic, type, id>>
encode_advertise_service_msg(service, req, reply, id) == <<"advertise_service", service, req, reply, id>>
encode_publication_msg(topic, type, id) == <<"publish", topic, type, id>>
encode_call_service_msg(service, req, id) == <<"call_service", service, req, id>>
encode_service_response_msg(service, reply, id) == <<"service_response", service, reply, id>>

(* ----------------------------- transport ------------------------------- *)
\* connection::send: the error code of a send on connection c
SendFails(c) == conn_state[c] # "open"

\* an endpoint that sends the payload whatever the encoder returned
empty_payload_sent(payload_empty) == TRUE

\* if (!payload.empty()) in Endpoint::publish, if (payload.empty()) return in
\* Endpoint::call_service: the payload is handed to connection::send
payload_sent(payload_empty) == ~payload_empty

\* the record of early frames after a send of frame f on connection c: a frame
\* goes on the wire if the connection is open, and is early if the connection's
\* opened event has not been handled yet
EarlyAfterSend(c, f) ==
    IF ~SendFails(c) /\ c \notin replay_done /\ Len(early[c]) < MaxEarly
    THEN [early EXCEPT ![c] = Append(@, f)]
    ELSE early


(* ------------------------------- Init ---------------------------------- *)
\* Client::Client and Endpoint::Endpoint: no connection, empty tables, id counter 1
Constructed ==
    /\ _tcp_connection = NoConn
    /\ _last_connection_attempt = 0
    /\ _has_spun_once = FALSE
    /\ _connection_failed = FALSE
    /\ conn_state = [c \in Conns |-> "none"]
    /\ handler_pending = [c \in Conns |-> "none"]
    /\ now = 0
    /\ _startup_messages = <<>>
    /\ _topic_subscribe_info = EmptyMap
    /\ _topic_publish_info = EmptyMap
    /\ _client_proxy_info = EmptyMap
    /\ _service_provider_info = EmptyMap
    /\ _service_request_info = EmptyMap
    /\ _next_service_call_id = FirstCallId
    /\ _next_service_call_id_mutex = "free"
    /\ pc = [h \in HostThreads |-> "idle"]
    /\ frame = [h \in HostThreads |-> NoEvent]
    /\ early = [c \in Conns |-> <<>>]
    /\ replay_done = {}
    /\ replayed = [c \in Conns |-> <<>>]
    /\ last_advert = [t \in Topics |-> [c \in Conns |-> NoType]]
    /\ allocated = <<>>
    /\ answered = EmptyMap
    /\ delivered = EmptyMap
    /\ close_handled = EmptyMap
    /\ failure_run = FALSE
    /\ _closing_down = FALSE
    /\ shutdown_pc = "alive"
    /\ shutdown_elapsed = 0
    /\ crashed = FALSE
    /\ call_handles = {}
    /\ declared = EmptyMap
    /\ last = NoEvent

\* the process is alive and the client has not been destroyed
Running == ~crashed /\ shutdown_pc # "done"

(* --------------------------- configuration ----------------------------- *)
\* a string the code transforms is a sequence of characters
YamlEncoding_Json == <<"j", "s", "o", "n">>

\* the values of the encoding key: present with a string, or absent
EncodingValues == {<<"j", "s", "o", "n">>, <<"J", "S", "O", "N">>, <<"J", "s", "o", "n">>,
                   <<"c", "d", "r">>, <<>>}
Encodings ==
    {[present |-> FALSE, value |-> <<>>]} \cup
    {[present |-> TRUE, value |-> v] : v \in EncodingValues}

\* the values of the security key
Securities ==
    {[present |-> FALSE, value |-> ""], [present |-> TRUE, value |-> "none"],
     [present |-> TRUE, value |-> "tls"]}

\* the values of the port key: absent, a scalar that is no integer, or an integer
PortValues == {-1, 0, 80}
Ports ==
    {[present |-> FALSE, integer |-> FALSE, value |-> 0],
     [present |-> TRUE, integer |-> FALSE, value |-> 0]} \cup
    {[present |-> TRUE, integer |-> TRUE, value |-> v] : v \in PortValues}

Configurations == [encoding : Encodings, security : Securities, port : Ports]

\* the configuration of the client the other specifications start from
HostConfiguration ==
    [encoding |-> [present |-> FALSE, value |-> <<>>],
     security |-> [present |-> TRUE, value |-> "none"],
     port |-> [present |-> TRUE, integer |-> TRUE, value |-> 80]]

\* ::tolower on one character
tolower(ch) ==
    CASE ch = "J" -> "j"
      [] ch = "S" -> "s"
      [] ch = "O" -> "o"
      [] ch = "N" -> "n"
      [] ch = "C" -> "c"
      [] ch = "D" -> "d"
      [] ch = "R" -> "r"
      [] OTHER -> ch

\* std::transform(encoding.begin(), encoding.end(), encoding.begin(), ::tolower)
transform_tolower(str) == [i \in DOMAIN str |-> tolower(str[i])]

\* a configure that takes any value of the encoding key for JSON
any_encoding_is_json(encode_node) == TRUE

\* Endpoint::configure, the choice of the encoding: whether make_json_encoding is
\* reached
uses_json_encoding(encode_node) ==
    IF encode_node.present
    THEN transform_tolower(encode_node.value) = YamlEncoding_Json
    ELSE TRUE

\* Endpoint::parse_port: the port, -1 when the key is absent; the conversion
\* port_node.as<int>() of a scalar that is no integer throws a conversion error,
\* which is not the YAML::InvalidNode the function catches
parse_port(port_node) ==
    IF port_node.present
    THEN IF port_node.integer
         THEN [threw |-> FALSE, port |-> port_node.value]
         ELSE [threw |-> TRUE, port |-> -1]
    ELSE [threw |-> FALSE, port |-> -1]

\* Client::configure_tcp_endpoint and Client::configure_tls_endpoint: the pointer
\* returned; client_ok: whether configure_client succeeds
configure_endpoint(config, client_ok) ==
    LET parsed == parse_port(config.port)
    IN  IF parsed.threw THEN "throws"
        ELSE IF parsed.port < 0 THEN "nullptr"
        ELSE IF ~client_ok THEN "nullptr"
        ELSE "client"

\* std::make_shared<TcpEndpoint>(pointer): a new object, whatever the pointer is
make_shared(pointer) == "endpoint"

\* Endpoint::configure
Configure ==
    /\ Running
    /\ configured = "none"
    /\ \E client_ok \in BOOLEAN :
          IF ~uses_json_encoding(configuration.encoding)
          THEN /\ configured' = "false"
               /\ UNCHANGED <<_encoding, _use_security, _tcp_endpoint, _tls_endpoint>>
          ELSE LET tcp == configuration.security.present /\ configuration.security.value = "none"
                   pointer == configure_endpoint(configuration, client_ok)
               IN  /\ _encoding' = "json"
                   /\ _use_security' = ~tcp
                   /\ IF pointer = "throws"
                      THEN /\ configured' = "throws"
                           /\ UNCHANGED <<_tcp_endpoint, _tls_endpoint>>
                      ELSE /\ _tcp_endpoint' = IF tcp THEN make_shared(pointer) ELSE _tcp_endpoint
                           /\ _tls_endpoint' = IF tcp THEN _tls_endpoint ELSE make_shared(pointer)
                           /\ LET success == IF tcp THEN _tcp_endpoint' # "null"
                                                    ELSE _tls_endpoint' # "null"
                              IN  configured' = IF success THEN "true" ELSE "false"
    /\ last' = NoEvent
    /\ UNCHANGED <<request_vars, configuration, client_vars, transport_vars, _startup_messages, topic_vars,
                   service_vars, call_vars, thread_vars, replay_vars, shutdown_vars, ghost_vars>>

\* an endpoint the host has configured for a TCP connection
Init ==
    /\ Constructed
    /\ configuration = HostConfiguration
    /\ configured = "true"
    /\ _encoding = "json"
    /\ _use_security = FALSE
    /\ _tcp_endpoint = "endpoint"
    /\ _tls_endpoint = "null"

\* an endpoint before Endpoint::configure, with any configuration
Unconfigured ==
    /\ Constructed
    /\ configuration \in Configurations
    /\ configured = "none"
    /\ _encoding = "null"
    /\ _use_security = FALSE
    /\ _tcp_endpoint = "null"
    /\ _tls_endpoint = "null"

SpecConfigure == Unconfigured /\ [][Configure]_vars

(* ---------------------- Client: reconnect loop ------------------------- *)
\* the clock advances by one second
Tick ==
    /\ Running
    /\ now < MaxTime
    /\ now' = now + 1
    /\ last' = NoEvent
    /\ UNCHANGED <<request_vars, config_vars, shutdown_vars, client_vars, conn_state, handler_pending, _startup_messages, topic_vars,
                   service_vars, call_vars, thread_vars, replay_vars, ghost_vars>>

\* more than the reconnect delay passes on the clock
Wait ==
    /\ Running
    /\ now + ReconnectDelay + 1 <= MaxTime
    /\ now' = now + ReconnectDelay + 1
    /\ last' = NoEvent
    /\ UNCHANGED <<request_vars, config_vars, shutdown_vars, client_vars, conn_state, handler_pending, _startup_messages, topic_vars,
                   service_vars, call_vars, thread_vars, replay_vars, ghost_vars>>

\* a debounce that lets the client dial when exactly the delay has passed
reconnect_at_delay ==
    /\ \/ _tcp_connection = NoConn
       \/ conn_state[_tcp_connection] = "closed"
    /\ now - _last_connection_attempt >= ReconnectDelay

\* a client that gives up once a connect attempt has failed
reconnect_unless_failed ==
    /\ \/ _tcp_connection = NoConn
       \/ conn_state[_tcp_connection] = "closed"
    /\ now - _last_connection_attempt > ReconnectDelay
    /\ ~_connection_failed

\* a debounce that looks at the clock alone
reconnect_in_any_state ==
    now - _last_connection_attempt > ReconnectDelay

\* the condition under which spin_once dials
attempt_reconnect ==
    /\ \/ _tcp_connection = NoConn
       \/ conn_state[_tcp_connection] = "closed"
    /\ now - _last_connection_attempt > ReconnectDelay

\* the connection objects the transport has not handed out yet
FreshConns == {c \in Conns : conn_state[c] = "none"}

\* a spin_once that tells whether the connection is open
returns_whether_open ==
    _tcp_connection # NoConn /\ conn_state[_tcp_connection] = "open"

\* the value Client::spin_once returns: _tcp_connection != nullptr
spin_once_returns == _tcp_connection # NoConn

\* Client::spin_once; created: whether get_connection returned a connection object
spin_once(created) ==
    IF ~_has_spun_once \/ attempt_reconnect
    THEN /\ FreshConns # {}
         /\ LET c == CHOOSE x \in FreshConns : \A y \in FreshConns : x <= y
            IN  /\ _has_spun_once' = TRUE
                /\ _tcp_connection' = IF created THEN c ELSE NoConn
                /\ conn_state' = IF created THEN [conn_state EXCEPT ![c] = "connecting"]
                                            ELSE conn_state
                /\ _last_connection_attempt' = now
         /\ UNCHANGED <<_connection_failed, handler_pending, now>>
    ELSE UNCHANGED <<client_vars, transport_vars>>

SpinOnce ==
    /\ Running
    /\ ~_closing_down
    /\ \E created \in BOOLEAN :
          /\ spin_once(created)
          /\ last' = [NoEvent EXCEPT
                 !.op = "spin_once",
                 !.first = ~_has_spun_once,
                 !.elapsed = now - _last_connection_attempt,
                 !.state = IF _tcp_connection = NoConn THEN "null"
                           ELSE conn_state[_tcp_connection],
                 !.invoked = IF ~_has_spun_once \/ attempt_reconnect
                             THEN IF created THEN <<"get_connection", "connect">>
                                  ELSE <<"get_connection">>
                             ELSE <<>>,
                 !.conn = _tcp_connection',
                 !.returned = spin_once_returns']
    /\ UNCHANGED <<request_vars, config_vars, shutdown_vars, _startup_messages, topic_vars, service_vars, call_vars, thread_vars,
                   replay_vars, ghost_vars>>

\* a spin_once call that dials; a call that does not leaves the client as it is
Dial ==
    /\ SpinOnce
    /\ last'.invoked # <<>>

(* ------------------ transport: connection state changes ---------------- *)
\* the handshake of a connecting connection completes
TransportOpen ==
    /\ Running
    /\ \E c \in Conns :
          /\ conn_state[c] = "connecting"
          /\ conn_state' = [conn_state EXCEPT ![c] = "open"]
          /\ handler_pending' = [handler_pending EXCEPT ![c] = "open"]
    /\ last' = NoEvent
    /\ UNCHANGED <<request_vars, config_vars, shutdown_vars, client_vars, now, _startup_messages, topic_vars, service_vars, call_vars,
                   thread_vars, replay_vars, ghost_vars>>

\* the dial of a connecting connection fails
TransportFail ==
    /\ Running
    /\ \E c \in Conns :
          /\ conn_state[c] = "connecting"
          /\ conn_state' = [conn_state EXCEPT ![c] = "closed"]
          /\ handler_pending' = [handler_pending EXCEPT ![c] = "fail"]
    /\ last' = NoEvent
    /\ UNCHANGED <<request_vars, config_vars, shutdown_vars, client_vars, now, _startup_messages, topic_vars, service_vars, call_vars,
                   thread_vars, replay_vars, ghost_vars>>

\* an open connection drops
TransportClose ==
    /\ Running
    /\ \E c \in Conns :
          /\ conn_state[c] \in {"open", "closing"}
          /\ handler_pending[c] = "none"
          /\ conn_state' = [conn_state EXCEPT ![c] = "closed"]
          /\ handler_pending' = [handler_pending EXCEPT ![c] = "close"]
          /\ last_advert' = [t \in Topics |-> [last_advert[t] EXCEPT ![c] = NoType]]
    /\ last' = NoEvent
    /\ UNCHANGED <<request_vars, config_vars, shutdown_vars, client_vars, now, _startup_messages, topic_vars, service_vars, call_vars,
                   thread_vars, replay_vars, allocated, answered, delivered, close_handled,
                   failure_run, crashed>>


(* --------------------- Endpoint: connection events --------------------- *)
\* a replay that sends only the newest startup message
replay_newest_only(c) ==
    IF SendFails(c) \/ _startup_messages = <<>>
    THEN <<>>
    ELSE <<_startup_messages[Len(_startup_messages)]>>

\* Endpoint::notify_connection_opened: the frames the replay loop puts on connection c
notify_connection_opened(c) == IF SendFails(c) THEN <<>> ELSE _startup_messages

\* a close handler that leaves the listener maps alone
listeners_kept(c) == _topic_publish_info

\* the blacklists after Endpoint::notify_connection_closed erased c from each
blacklists_without(c) ==
    [t \in DOMAIN _topic_subscribe_info |->
        [_topic_subscribe_info[t] EXCEPT !.blacklist = @ \ {c}]]

\* the listener maps after Endpoint::notify_connection_closed erased c from each
listeners_without(c) ==
    [t \in DOMAIN _topic_publish_info |->
        [_topic_publish_info[t] EXCEPT !.listeners = Remove(@, c)]]

\* the services Endpoint::notify_connection_closed collects in lost_services
lost_services(c) == {s \in DOMAIN _service_provider_info :
                        _service_provider_info[s].connection_handle = c}

\* a close handler that leaves the provider table alone
providers_kept(c) == _service_provider_info

\* the provider table after the lost services were erased
providers_without(c) ==
    [s \in (DOMAIN _service_provider_info) \ lost_services(c) |-> _service_provider_info[s]]

\* the kinds of table that hold connection c
tables_holding(c) ==
    {k \in {"blacklist", "listeners", "provider"} :
        \/ k = "blacklist" /\ \E t \in DOMAIN _topic_subscribe_info :
                                  c \in _topic_subscribe_info[t].blacklist
        \/ k = "listeners" /\ \E t \in DOMAIN _topic_publish_info :
                                  c \in DOMAIN _topic_publish_info[t].listeners
        \/ k = "provider" /\ \E s \in DOMAIN _service_provider_info :
                                  _service_provider_info[s].connection_handle = c}

\* the topics whose listener map holds connection c
listened_topics(c) == {t \in DOMAIN _topic_publish_info :
                          c \in DOMAIN _topic_publish_info[t].listeners}

\* a close handler that also forgets the calls in flight
calls_forgotten_on_close(c) ==
    /\ _topic_subscribe_info' = blacklists_without(c)
    /\ _topic_publish_info' = listeners_without(c)
    /\ _service_provider_info' = providers_without(c)
    /\ _service_request_info' = EmptyMap
    /\ UNCHANGED <<_client_proxy_info, _next_service_call_id, _next_service_call_id_mutex,
                   _startup_messages>>

\* Endpoint::notify_connection_closed
notify_connection_closed(c) ==
    /\ _topic_subscribe_info' = blacklists_without(c)
    /\ _topic_publish_info' = listeners_without(c)
    /\ _service_provider_info' = providers_without(c)
    /\ UNCHANGED <<_client_proxy_info, call_vars, _startup_messages>>

(* ------------------- Client: connection callbacks ---------------------- *)
\* Client::_handle_opening, on the worker
HandleOpening ==
    /\ Running
    /\ \E c \in Conns :
          /\ handler_pending[c] = "open"
          /\ handler_pending' = [handler_pending EXCEPT ![c] = "none"]
          /\ IF c # _tcp_connection
             THEN UNCHANGED <<_connection_failed, replay_vars, failure_run>>
             ELSE /\ _connection_failed' = FALSE
                  /\ failure_run' = FALSE
                  /\ replayed' = [replayed EXCEPT ![c] = notify_connection_opened(c)]
                  /\ replay_done' = replay_done \cup {c}
                  /\ UNCHANGED early
    /\ last' = NoEvent
    /\ UNCHANGED <<request_vars, config_vars, shutdown_vars, _tcp_connection, _last_connection_attempt, _has_spun_once, conn_state, now,
                   _startup_messages, topic_vars, service_vars, call_vars, thread_vars,
                   last_advert, allocated, answered, delivered, close_handled, crashed>>

\* Client::_handle_close, on the worker
HandleClose ==
    /\ Running
    /\ \E c \in Conns :
          /\ handler_pending[c] = "close"
          /\ handler_pending' = [handler_pending EXCEPT ![c] = "none"]
          /\ notify_connection_closed(c)
          /\ close_handled' = Put(close_handled, c, listened_topics(c))
          /\ last' = [NoEvent EXCEPT !.op = "closed", !.conn = c, !.targets = tables_holding(c)]
    /\ declared' = declared_after(_topic_publish_info', "", NoConn, NoType, FALSE)
    /\ UNCHANGED <<call_handles, config_vars, shutdown_vars, client_vars, conn_state, now, thread_vars, replay_vars,
                   last_advert, allocated, answered, delivered, failure_run, crashed>>

\* a failure handler that logs the error every time
logs_every_failure == <<"ERROR">>

\* what Client::_handle_failed_connection logs
_handle_failed_connection ==
    IF ~_connection_failed THEN <<"ERROR">> ELSE <<>>

\* Client::_handle_failed_connection, on the worker
HandleFailedConnection ==
    /\ Running
    /\ \E c \in Conns :
          /\ handler_pending[c] = "fail"
          /\ handler_pending' = [handler_pending EXCEPT ![c] = "none"]
          /\ last' = [NoEvent EXCEPT !.op = "connection_failed", !.conn = c,
                                     !.first = ~failure_run,
                                     !.invoked = _handle_failed_connection]
    /\ _connection_failed' = TRUE
    /\ failure_run' = TRUE
    /\ UNCHANGED <<request_vars, config_vars, shutdown_vars, _tcp_connection, _last_connection_attempt, _has_spun_once, conn_state, now,
                   _startup_messages, topic_vars, service_vars, call_vars, thread_vars,
                   replay_vars, last_advert, allocated, answered, delivered, close_handled,
                   crashed>>

(* --------------------------- Client: shutdown --------------------------- *)
\* the sleep of the polling loop of Client::~Client and its time limit, in
\* milliseconds
PollInterval == 200
ShutdownTimeout == 10000

\* Client::~Client up to the test of the connection state
ShutdownBegin ==
    /\ Running
    /\ shutdown_pc = "alive"
    /\ \A h \in HostThreads : pc[h] = "idle"
    /\ _closing_down' = TRUE
    /\ shutdown_pc' = IF _tcp_connection # NoConn /\ conn_state[_tcp_connection] = "open"
                      THEN "close" ELSE "stop"
    /\ shutdown_elapsed' = 0
    /\ last' = [NoEvent EXCEPT !.op = "shutdown", !.conn = _tcp_connection]
    /\ UNCHANGED <<request_vars, config_vars, client_vars, transport_vars, _startup_messages, topic_vars, service_vars,
                   call_vars, thread_vars, replay_vars, ghost_vars>>

\* Client::~Client: _tcp_connection->close(normal, "shutdown"). The call takes no
\* error_code, so the transport throws when the connection is no longer open, and
\* an exception that leaves a destructor ends the process.
ShutdownClose ==
    /\ Running
    /\ shutdown_pc = "close"
    /\ IF conn_state[_tcp_connection] = "open"
       THEN /\ conn_state' = [conn_state EXCEPT ![_tcp_connection] = "closing"]
            /\ shutdown_pc' = "poll"
            /\ last' = [NoEvent EXCEPT !.op = "shutdown_close", !.conn = _tcp_connection]
            /\ UNCHANGED crashed
       ELSE /\ crashed' = TRUE
            /\ last' = [NoEvent EXCEPT !.op = "shutdown_close", !.conn = _tcp_connection,
                                       !.threw = "invalid_state"]
            /\ UNCHANGED <<conn_state, shutdown_pc>>
    /\ UNCHANGED <<request_vars, config_vars, client_vars, handler_pending, now, _startup_messages, topic_vars,
                   service_vars, call_vars, thread_vars, replay_vars, _closing_down,
                   shutdown_elapsed, last_advert, allocated, answered, delivered,
                   close_handled, failure_run>>

\* Client::~Client: one turn of the polling loop
ShutdownPoll ==
    /\ Running
    /\ shutdown_pc = "poll"
    /\ IF conn_state[_tcp_connection] = "closed"
       THEN /\ shutdown_pc' = "stop"
            /\ last' = [NoEvent EXCEPT !.op = "shutdown_poll", !.state = "closed"]
            /\ UNCHANGED shutdown_elapsed
       ELSE /\ shutdown_elapsed' = shutdown_elapsed + PollInterval
            /\ shutdown_pc' = IF shutdown_elapsed' > ShutdownTimeout THEN "stop" ELSE "poll"
            /\ last' = [NoEvent EXCEPT
                   !.op = "shutdown_poll",
                   !.state = conn_state[_tcp_connection],
                   !.invoked = IF shutdown_elapsed' > ShutdownTimeout THEN <<"WARN">> ELSE <<>>]
    /\ UNCHANGED <<request_vars, config_vars, client_vars, transport_vars, _startup_messages, topic_vars, service_vars,
                   call_vars, thread_vars, replay_vars, _closing_down, ghost_vars>>

\* Client::~Client: stop_perpetual, stop and join of the worker
ShutdownStop ==
    /\ Running
    /\ shutdown_pc = "stop"
    /\ shutdown_pc' = "done"
    /\ last' = [NoEvent EXCEPT !.op = "shutdown_stop", !.conn = _tcp_connection,
                               !.invoked = <<"stop_perpetual", "stop", "join">>]
    /\ UNCHANGED <<request_vars, config_vars, client_vars, transport_vars, _startup_messages, topic_vars, service_vars,
                   call_vars, thread_vars, replay_vars, _closing_down, shutdown_elapsed,
                   ghost_vars>>

(* ------------------- Endpoint: host registration ----------------------- *)
\* a TopicSubscribeInfo as operator[] default-constructs it
NewSubscribeInfo == [type |-> NoType, blacklist |-> {}]
\* a TopicPublishInfo as default-constructed
NewPublishInfo == [type |-> NoType, listeners |-> EmptyMap]

\* a subscribe that appends no startup message for a topic it already holds with
\* the same type
subscribe_once(topic_name, message_type) ==
    /\ _startup_messages' =
          IF /\ topic_name \in DOMAIN _topic_subscribe_info
             /\ _topic_subscribe_info[topic_name].type = message_type
          THEN _startup_messages
          ELSE Append(_startup_messages, encode_subscribe_msg(topic_name, message_type, ""))
    /\ LET info == IF topic_name \in DOMAIN _topic_subscribe_info
                   THEN _topic_subscribe_info[topic_name] ELSE NewSubscribeInfo
       IN _topic_subscribe_info' =
              Put(_topic_subscribe_info, topic_name, [info EXCEPT !.type = message_type])
    /\ UNCHANGED <<_topic_publish_info, service_vars, call_vars>>

\* a subscribe that rewrites the log: the newest message goes first
subscribe_prepending(topic_name, message_type) ==
    /\ _startup_messages' =
          <<encode_subscribe_msg(topic_name, message_type, "")>> \o _startup_messages
    /\ LET info == IF topic_name \in DOMAIN _topic_subscribe_info
                   THEN _topic_subscribe_info[topic_name] ELSE NewSubscribeInfo
       IN _topic_subscribe_info' =
              Put(_topic_subscribe_info, topic_name, [info EXCEPT !.type = message_type])
    /\ UNCHANGED <<_topic_publish_info, service_vars, call_vars>>

\* Endpoint::subscribe
subscribe(topic_name, message_type) ==
    /\ _startup_messages' = Append(_startup_messages, encode_subscribe_msg(topic_name, message_type, ""))
    /\ LET info == IF topic_name \in DOMAIN _topic_subscribe_info
                   THEN _topic_subscribe_info[topic_name] ELSE NewSubscribeInfo
       IN _topic_subscribe_info' =
              Put(_topic_subscribe_info, topic_name, [info EXCEPT !.type = message_type])
    /\ UNCHANGED <<_topic_publish_info, service_vars, call_vars>>

Subscribe ==
    /\ Running
    /\ ~_closing_down
    /\ Len(_startup_messages) < MaxStartup
    /\ \E t \in Topics, ty \in Types :
          /\ subscribe(t, ty)
          /\ last' = [NoEvent EXCEPT !.op = "subscribe", !.topic = t, !.type = ty]
    /\ UNCHANGED <<request_vars, config_vars, shutdown_vars, client_vars, transport_vars, thread_vars, replay_vars, ghost_vars>>

\* Endpoint::startup_advertisement
startup_advertisement(topic, message_type, id) ==
    /\ LET info == IF topic \in DOMAIN _topic_publish_info
                   THEN _topic_publish_info[topic] ELSE NewPublishInfo
       IN _topic_publish_info' =
              Put(_topic_publish_info, topic, [info EXCEPT !.type = message_type])
    /\ _startup_messages' = Append(_startup_messages, encode_advertise_msg(topic, message_type, id))
    /\ UNCHANGED <<_topic_subscribe_info, service_vars, call_vars>>

StartupAdvertisement ==
    /\ Running
    /\ ~_closing_down
    /\ Len(_startup_messages) < MaxStartup
    /\ \E t \in Topics, ty \in Types :
          /\ startup_advertisement(t, ty, "")
          /\ last' = [NoEvent EXCEPT !.op = "startup_advertisement", !.topic = t, !.type = ty]
    /\ UNCHANGED <<request_vars, config_vars, shutdown_vars, client_vars, transport_vars, thread_vars, replay_vars, ghost_vars>>

\* Client::runtime_advertisement
runtime_advertisement(topic, message_type, id) ==
    IF _tcp_connection # NoConn
    THEN early' = EarlyAfterSend(_tcp_connection, encode_advertise_msg(topic, message_type, id))
    ELSE UNCHANGED early

RuntimeAdvertisement ==
    /\ Running
    /\ ~_closing_down
    /\ \E t \in Topics, ty \in Types : runtime_advertisement(t, ty, "")
    /\ last' = NoEvent
    /\ UNCHANGED <<request_vars, config_vars, shutdown_vars, client_vars, transport_vars, _startup_messages, topic_vars, service_vars,
                   call_vars, thread_vars, replay_done, replayed, ghost_vars>>

\* Endpoint::create_client_proxy with a reply type
create_client_proxy(service_name, request_type, reply_type) ==
    /\ _client_proxy_info' = Put(_client_proxy_info, service_name,
                                  [req_type |-> request_type, reply_type |-> reply_type])
    /\ _startup_messages' = Append(_startup_messages,
            encode_advertise_service_msg(service_name, request_type, reply_type, ""))
    /\ UNCHANGED <<topic_vars, _service_provider_info, call_vars>>

CreateClientProxy ==
    /\ Running
    /\ ~_closing_down
    /\ Len(_startup_messages) < MaxStartup
    /\ \E s \in Services :
          /\ create_client_proxy(s, "A", "B")
          /\ last' = [NoEvent EXCEPT !.op = "create_client_proxy", !.service = s,
                                     !.type = "A", !.reply = "B"]
    /\ UNCHANGED <<request_vars, config_vars, shutdown_vars, client_vars, transport_vars, thread_vars, replay_vars, ghost_vars>>

\* a proxy without reply type that is announced in the startup log all the same
announced_without_reply_type(service_name, service_type) ==
    /\ LET info == IF service_name \in DOMAIN _client_proxy_info
                   THEN _client_proxy_info[service_name]
                   ELSE [req_type |-> "", reply_type |-> ""]
       IN  _client_proxy_info' =
              Put(_client_proxy_info, service_name, [info EXCEPT !.req_type = service_type])
    /\ _startup_messages' = Append(_startup_messages,
            encode_advertise_service_msg(service_name, service_type, "", ""))
    /\ UNCHANGED <<topic_vars, _service_provider_info, call_vars>>

\* Endpoint::create_client_proxy with a service type and no reply type
create_client_proxy_service_type(service_name, service_type) ==
    /\ LET info == IF service_name \in DOMAIN _client_proxy_info
                   THEN _client_proxy_info[service_name]
                   ELSE [req_type |-> "", reply_type |-> ""]
       IN  _client_proxy_info' =
              Put(_client_proxy_info, service_name, [info EXCEPT !.req_type = service_type])
    /\ UNCHANGED <<_startup_messages, topic_vars, _service_provider_info, call_vars>>

CreateClientProxyServiceType ==
    /\ Running
    /\ ~_closing_down
    /\ \E s \in Services :
          /\ create_client_proxy_service_type(s, "A")
          /\ last' = [NoEvent EXCEPT !.op = "create_client_proxy", !.service = s,
                                     !.type = "A", !.reply = ""]
    /\ UNCHANGED <<request_vars, config_vars, shutdown_vars, client_vars, transport_vars,
                   thread_vars, replay_vars, ghost_vars>>

\* Endpoint::create_service_proxy, with a reply type (with_reply) or a service type
\* alone: the provider entry is found or created, its connection handle untouched
create_service_proxy(service_name, request_type, reply_type, with_reply) ==
    LET info == IF service_name \in DOMAIN _service_provider_info
                THEN _service_provider_info[service_name]
                ELSE [req_type |-> "", reply_type |-> "", connection_handle |-> NoConn]
    IN  Put(_service_provider_info, service_name,
            [info EXCEPT !.req_type = request_type,
                         !.reply_type = IF with_reply THEN reply_type ELSE @])

CreateServiceProxy ==
    /\ Running
    /\ ~_closing_down
    /\ \E s \in Services, with_reply \in BOOLEAN :
          /\ _service_provider_info' = create_service_proxy(s, "A", "B", with_reply)
          /\ last' = [NoEvent EXCEPT !.op = "create_service_proxy", !.service = s,
                                     !.type = "A",
                                     !.reply = IF with_reply THEN "B" ELSE ""]
    /\ UNCHANGED <<request_vars, config_vars, shutdown_vars, client_vars, transport_vars,
                   _startup_messages, topic_vars, _client_proxy_info, call_vars,
                   thread_vars, replay_vars, ghost_vars>>

\* Endpoint::advertise: the type goes to the encoding and the host gets a publisher
\* handle; no table and no startup message is written
Advertise ==
    /\ Running
    /\ ~_closing_down
    /\ \E t \in Topics, ty \in Types :
          last' = [NoEvent EXCEPT !.op = "advertise", !.topic = t, !.type = ty]
    /\ UNCHANGED <<request_vars, config_vars, shutdown_vars, client_vars, transport_vars,
                   _startup_messages, topic_vars, service_vars, call_vars, thread_vars,
                   replay_vars, ghost_vars>>

(* ------------------- Client: incoming frames --------------------------- *)
\* the worker can hand a frame of connection c to Client::_handle_tcp_message
Incoming(c) == conn_state[c] = "open" /\ handler_pending[c] = "none"

\* Client::_handle_tcp_message drops the frame of a connection that is not the current one
Unexpected(c) == c # _tcp_connection

\* a frame handler that closes the connection the frame came from
closes_current_connection == {_tcp_connection} \ {NoConn}

\* the connections a receive_*_ws handler closes: the handlers call no close()
closed_by_frame_handler == {}

\* the connection states when a receive_*_ws handler returns
after_frame ==
    [c \in Conns |-> IF c \in closed_by_frame_handler THEN "closing" ELSE conn_state[c]]

(* ------------------- Endpoint: incoming topic frames ------------------- *)
\* Endpoint::receive_topic_advertisement_ws: the subscribe table afterwards
receive_topic_advertisement_ws(topic_name, message_type, connection_handle) ==
    IF topic_name \in DOMAIN _topic_subscribe_info
    THEN IF message_type # _topic_subscribe_info[topic_name].type
         THEN [_topic_subscribe_info EXCEPT ![topic_name].blacklist = @ \cup {connection_handle}]
         ELSE [_topic_subscribe_info EXCEPT ![topic_name].blacklist = @ \ {connection_handle}]
    ELSE _topic_subscribe_info

ReceiveTopicAdvertisement ==
    /\ Running
    /\ \E c \in Conns, t \in Topics, ty \in Types :
          /\ Incoming(c)
          /\ IF Unexpected(c)
             THEN UNCHANGED <<_topic_subscribe_info, last_advert>> /\ last' = NoEvent
             ELSE /\ _topic_subscribe_info' =
                        receive_topic_advertisement_ws(t, ty, _tcp_connection)
                  /\ last_advert' = [last_advert EXCEPT ![t][_tcp_connection] = ty]
                  /\ last' = [NoEvent EXCEPT !.op = "topic_advertisement", !.topic = t,
                                             !.type = ty, !.conn = _tcp_connection]
    /\ conn_state' = after_frame
    /\ UNCHANGED <<request_vars, config_vars, shutdown_vars, client_vars, handler_pending, now, _startup_messages,
                   _topic_publish_info, service_vars, call_vars, thread_vars, replay_vars,
                   allocated, answered, delivered, close_handled, failure_run, crashed>>

\* an unadvertisement handler that takes the connection off the topic's blacklist
blacklist_cleared_on_unadvertisement(topic_name, connection_handle) ==
    IF topic_name \in DOMAIN _topic_subscribe_info
    THEN [_topic_subscribe_info EXCEPT ![topic_name].blacklist = @ \ {connection_handle}]
    ELSE _topic_subscribe_info

\* Endpoint::receive_topic_unadvertisement_ws: the subscribe table afterwards; the
\* body of the handler is empty
receive_topic_unadvertisement_ws(topic_name, connection_handle) ==
    _topic_subscribe_info

ReceiveTopicUnadvertisement ==
    /\ Running
    /\ \E c \in Conns, t \in Topics :
          /\ Incoming(c)
          /\ IF Unexpected(c)
             THEN UNCHANGED _topic_subscribe_info /\ last' = NoEvent
             ELSE /\ _topic_subscribe_info' =
                        receive_topic_unadvertisement_ws(t, _tcp_connection)
                  /\ last' = [NoEvent EXCEPT !.op = "topic_unadvertisement", !.topic = t,
                                             !.conn = _tcp_connection]
    /\ conn_state' = after_frame
    /\ UNCHANGED <<request_vars, config_vars, shutdown_vars, client_vars, handler_pending, now,
                   _startup_messages, _topic_publish_info, service_vars, call_vars,
                   thread_vars, replay_vars, ghost_vars>>

\* a publication handler that does not consult the blacklist
deliver_if_subscribed(topic_name, connection_handle) ==
    topic_name \in DOMAIN _topic_subscribe_info

\* Endpoint::receive_publication_ws: whether the subscription callback is invoked
receive_publication_ws(topic_name, connection_handle) ==
    IF topic_name \notin DOMAIN _topic_subscribe_info
    THEN FALSE
    ELSE IF connection_handle \in _topic_subscribe_info[topic_name].blacklist
         THEN FALSE
         ELSE TRUE

ReceivePublication ==
    /\ Running
    /\ \E c \in Conns, t \in Topics :
          /\ Incoming(c)
          /\ IF Unexpected(c)
             THEN last' = NoEvent
             ELSE last' = [NoEvent EXCEPT
                      !.op = "publication", !.topic = t, !.conn = _tcp_connection,
                      !.invoked = IF receive_publication_ws(t, _tcp_connection)
                                  THEN <<"subscription_callback">> ELSE <<>>]
    /\ conn_state' = after_frame
    /\ UNCHANGED <<request_vars, config_vars, shutdown_vars, client_vars, handler_pending, now, _startup_messages,
                   topic_vars, service_vars, call_vars, thread_vars, replay_vars,
                   ghost_vars>>

\* Endpoint::receive_subscribe_request_ws reads message_type->name() for its debug line
\* also when message_type is the null pointer: a null dereference
subscribe_request_dereferences_null(topic_name, message_type) ==
    topic_name \in DOMAIN _topic_publish_info /\ message_type = NoType

\* a subscription request handler that records the listener whatever type is asked
listener_added_despite_mismatch(topic_name, message_type, id, connection_handle) ==
    LET info == IF topic_name \in DOMAIN _topic_publish_info
                THEN _topic_publish_info[topic_name] ELSE NewPublishInfo
        ids == IF connection_handle \in DOMAIN info.listeners
               THEN info.listeners[connection_handle] ELSE {}
    IN  Put(_topic_publish_info, topic_name,
            [info EXCEPT !.listeners = Put(@, connection_handle, ids \cup {id})])

\* Endpoint::receive_subscribe_request_ws: the publish table afterwards
request_recorded(topic_name, message_type) ==
    \/ topic_name \notin DOMAIN _topic_publish_info
    \/ message_type = NoType
    \/ message_type = _topic_publish_info[topic_name].type

receive_subscribe_request_ws(topic_name, message_type, id, connection_handle) ==
    LET inserted == topic_name \notin DOMAIN _topic_publish_info
        info == IF inserted THEN NewPublishInfo ELSE _topic_publish_info[topic_name]
        ids == IF connection_handle \in DOMAIN info.listeners
               THEN info.listeners[connection_handle] ELSE {}
        added == [info EXCEPT !.listeners = Put(@, connection_handle, ids \cup {id})]
    IN  IF ~inserted /\ message_type # NoType /\ message_type # info.type
        THEN _topic_publish_info
        ELSE Put(_topic_publish_info, topic_name, added)

ReceiveSubscribeRequest ==
    /\ Running
    /\ \E c \in Conns, t \in Topics, ty \in Types \cup {NoType}, id \in SubIds :
          /\ Incoming(c)
          /\ IF Unexpected(c)
             THEN UNCHANGED <<_topic_publish_info, crashed>> /\ last' = NoEvent
             ELSE \E survives \in BOOLEAN :
                    /\ survives \/ subscribe_request_dereferences_null(t, ty)
                    /\ crashed' = ~survives
                    /\ _topic_publish_info' =
                          IF survives
                          THEN receive_subscribe_request_ws(t, ty, id, _tcp_connection)
                          ELSE _topic_publish_info
                    /\ last' = [NoEvent EXCEPT !.op = "subscribe_request", !.topic = t,
                                   !.type = ty, !.id = id, !.conn = _tcp_connection]
    /\ conn_state' = after_frame
    /\ UNCHANGED <<request_vars, config_vars, shutdown_vars, client_vars, handler_pending, now, _startup_messages,
                   _topic_subscribe_info, service_vars, call_vars, thread_vars,
                   replay_vars, last_advert, allocated, answered, delivered, close_handled,
                   failure_run>>

\* the same handler with the type each recorded request declared observed
ReceiveDeclaredSubscribeRequest ==
    /\ Running
    /\ \E c \in Conns, t \in Topics, ty \in Types \cup {NoType}, id \in SubIds :
          /\ Incoming(c)
          /\ IF Unexpected(c)
             THEN UNCHANGED <<_topic_publish_info, crashed, declared>> /\ last' = NoEvent
             ELSE \E survives \in BOOLEAN :
                    /\ survives \/ subscribe_request_dereferences_null(t, ty)
                    /\ crashed' = ~survives
                    /\ _topic_publish_info' =
                          IF survives
                          THEN receive_subscribe_request_ws(t, ty, id, _tcp_connection)
                          ELSE _topic_publish_info
                    /\ declared' = declared_after(_topic_publish_info', t, _tcp_connection,
                                                  ty, survives /\ request_recorded(t, ty))
                    /\ last' = [NoEvent EXCEPT !.op = "subscribe_request", !.topic = t,
                                   !.type = ty, !.id = id, !.conn = _tcp_connection]
    /\ conn_state' = after_frame
    /\ UNCHANGED <<call_handles, config_vars, shutdown_vars, client_vars, handler_pending, now, _startup_messages,
                   _topic_subscribe_info, service_vars, call_vars, thread_vars,
                   replay_vars, last_advert, allocated, answered, delivered, close_handled,
                   failure_run>>

\* an unsubscription handler that keeps a connection whose id set has become empty
empty_id_set_kept(topic_name, id, connection_handle) ==
    IF topic_name \notin DOMAIN _topic_publish_info
    THEN _topic_publish_info
    ELSE LET info == _topic_publish_info[topic_name]
         IN  IF connection_handle \notin DOMAIN info.listeners
             THEN _topic_publish_info
             ELSE IF id = ""
                  THEN [_topic_publish_info EXCEPT
                           ![topic_name].listeners = Remove(@, connection_handle)]
                  ELSE [_topic_publish_info EXCEPT
                           ![topic_name].listeners[connection_handle] = @ \ {id}]

\* Endpoint::receive_unsubscribe_request_ws: the publish table afterwards
receive_unsubscribe_request_ws(topic_name, id, connection_handle) ==
    IF topic_name \notin DOMAIN _topic_publish_info
    THEN _topic_publish_info
    ELSE LET info == _topic_publish_info[topic_name]
         IN  IF connection_handle \notin DOMAIN info.listeners
             THEN _topic_publish_info
             ELSE IF id = ""
                  THEN [_topic_publish_info EXCEPT
                           ![topic_name].listeners = Remove(@, connection_handle)]
                  ELSE LET listeners == info.listeners[connection_handle] \ {id}
                       IN  IF listeners = {}
                           THEN [_topic_publish_info EXCEPT
                                    ![topic_name].listeners = Remove(@, connection_handle)]
                           ELSE [_topic_publish_info EXCEPT
                                    ![topic_name].listeners[connection_handle] = listeners]

ReceiveUnsubscribeRequest ==
    /\ Running
    /\ \E c \in Conns, t \in Topics, id \in SubIds :
          /\ Incoming(c)
          /\ IF Unexpected(c)
             THEN UNCHANGED _topic_publish_info /\ last' = NoEvent
             ELSE /\ _topic_publish_info' =
                        receive_unsubscribe_request_ws(t, id, _tcp_connection)
                  /\ last' = [NoEvent EXCEPT !.op = "unsubscribe_request", !.topic = t,
                                             !.id = id, !.conn = _tcp_connection]
    /\ declared' = declared_after(_topic_publish_info', "", NoConn, NoType, FALSE)
    /\ conn_state' = after_frame
    /\ UNCHANGED <<call_handles, config_vars, shutdown_vars, client_vars, handler_pending, now, _startup_messages,
                   _topic_subscribe_info, service_vars, call_vars, thread_vars,
                   replay_vars, ghost_vars>>

(* ------------------- Endpoint: incoming service frames ----------------- *)
\* an advertisement handler that keeps the provider a service already has
first_provider_kept(service_name, req_type, reply_type, connection_handle) ==
    IF service_name \in DOMAIN _service_provider_info
    THEN _service_provider_info
    ELSE Put(_service_provider_info, service_name,
             [req_type |-> req_type, reply_type |-> reply_type,
              connection_handle |-> connection_handle])

\* Endpoint::receive_service_advertisement_ws: the provider table afterwards
receive_service_advertisement_ws(service_name, req_type, reply_type, connection_handle) ==
    Put(_service_provider_info, service_name,
        [req_type |-> req_type, reply_type |-> reply_type,
         connection_handle |-> connection_handle])

ReceiveServiceAdvertisement ==
    /\ Running
    /\ \E c \in Conns, sv \in Services, ty \in ServiceTypes :
          /\ Incoming(c)
          /\ IF Unexpected(c)
             THEN UNCHANGED _service_provider_info /\ last' = NoEvent
             ELSE /\ _service_provider_info' =
                        receive_service_advertisement_ws(sv, ty[1], ty[2], _tcp_connection)
                  /\ last' = [NoEvent EXCEPT !.op = "service_advertisement", !.service = sv,
                                             !.type = ty[1], !.reply = ty[2],
                                             !.conn = _tcp_connection,
                                             !.before = _service_provider_info]
    /\ conn_state' = after_frame
    /\ UNCHANGED <<request_vars, config_vars, shutdown_vars, client_vars, handler_pending, now, _startup_messages,
                   topic_vars, _client_proxy_info, call_vars, thread_vars, replay_vars,
                   ghost_vars>>

\* an unadvertisement handler that does not compare connections
provider_removed_for_anyone(service_name, connection_handle) ==
    Remove(_service_provider_info, service_name)

\* Endpoint::receive_service_unadvertisement_ws: the provider table afterwards
receive_service_unadvertisement_ws(service_name, connection_handle) ==
    IF service_name \notin DOMAIN _service_provider_info
    THEN _service_provider_info
    ELSE IF _service_provider_info[service_name].connection_handle = connection_handle
         THEN Remove(_service_provider_info, service_name)
         ELSE _service_provider_info

ReceiveServiceUnadvertisement ==
    /\ Running
    /\ \E c \in Conns, sv \in Services :
          /\ Incoming(c)
          /\ IF Unexpected(c)
             THEN UNCHANGED _service_provider_info /\ last' = NoEvent
             ELSE /\ _service_provider_info' =
                        receive_service_unadvertisement_ws(sv, _tcp_connection)
                  /\ last' = [NoEvent EXCEPT !.op = "service_unadvertisement", !.service = sv,
                                             !.conn = _tcp_connection,
                                             !.before = _service_provider_info]
    /\ conn_state' = after_frame
    /\ UNCHANGED <<request_vars, config_vars, shutdown_vars, client_vars, handler_pending, now, _startup_messages,
                   topic_vars, _client_proxy_info, call_vars, thread_vars, replay_vars,
                   ghost_vars>>

(* ------------------------- Endpoint: publish --------------------------- *)
\* the host thread that publishes
PublishThreads == {"h1"}

\* Endpoint::publish up to the loop: info = _topic_publish_info.at(topic); an empty
\* listener map returns at once.  payload_empty: the encoder refuses the message.
PublishBegin ==
    /\ Running
    /\ ~_closing_down
    /\ \E h \in PublishThreads, t \in DOMAIN _topic_publish_info, payload_empty \in BOOLEAN :
          /\ pc[h] = "idle"
          /\ LET listeners == DOMAIN _topic_publish_info[t].listeners
                 call == [NoEvent EXCEPT !.op = "publish", !.topic = t, !.targets = listeners,
                                         !.before = close_handled, !.empty = payload_empty]
             IN  IF listeners = {}
                 THEN /\ last' = call
                      /\ UNCHANGED thread_vars
                 ELSE /\ last' = NoEvent
                      /\ pc' = [pc EXCEPT ![h] = "publish_loop"]
                      /\ frame' = [frame EXCEPT ![h] = call]
    /\ UNCHANGED <<request_vars, config_vars, shutdown_vars, client_vars, transport_vars, _startup_messages, topic_vars, service_vars,
                   call_vars, replay_vars, ghost_vars>>

\* the listeners the loop of Endpoint::publish has not visited yet
Unvisited(h) ==
    IF frame[h].topic \in DOMAIN _topic_publish_info
    THEN (DOMAIN _topic_publish_info[frame[h].topic].listeners) \ frame[h].visited
    ELSE {}

\* the loop of Endpoint::publish steps to its next listener, the map as it is now: a
\* listener erased meanwhile is not met, one added meanwhile may or may not be met
PublishNext ==
    /\ Running
    /\ \E h \in PublishThreads :
          /\ pc[h] = "publish_loop"
          /\ \/ \E c \in Unvisited(h) :
                   /\ pc' = [pc EXCEPT ![h] = "publish_send"]
                   /\ frame' = [frame EXCEPT ![h].conn = c]
                   /\ last' = NoEvent
             \/ /\ Unvisited(h) \cap frame[h].targets = {}
                /\ pc' = [pc EXCEPT ![h] = "idle"]
                /\ frame' = [frame EXCEPT ![h] = NoEvent]
                /\ last' = [frame[h] EXCEPT !.conn = NoConn, !.visited = {}]
    /\ UNCHANGED <<request_vars, config_vars, shutdown_vars, client_vars, transport_vars, _startup_messages, topic_vars, service_vars,
                   call_vars, replay_vars, ghost_vars>>

\* a publish that looks the connection up in the listener map again before it sends
send_issued_if_listening(payload_empty, listening) ==
    payload_sent(payload_empty) /\ listening

\* the body of the loop of Endpoint::publish sends on the handle the iterator gave,
\* under no lock and without a second look at the listener map
send_issued(payload_empty, listening) == payload_sent(payload_empty)

\* the body of the loop: encode, and send on the listener's connection unless the
\* payload is empty
PublishSend ==
    /\ Running
    /\ \E h \in PublishThreads :
          /\ pc[h] = "publish_send"
          /\ LET c == frame[h].conn
                 t == frame[h].topic
                 payload == encode_publication_msg(t, "", "")
                 listening == t \in DOMAIN _topic_publish_info
                                /\ c \in DOMAIN _topic_publish_info[t].listeners
             IN  /\ frame' = [frame EXCEPT
                        ![h].sends = IF send_issued(frame[h].empty, listening)
                                     THEN Append(@, c) ELSE @,
                        ![h].strays = IF send_issued(frame[h].empty, listening) /\ ~listening
                                      THEN @ \cup {c} ELSE @,
                        ![h].visited = @ \cup {c}]
                 /\ early' = IF send_issued(frame[h].empty, listening)
                             THEN EarlyAfterSend(c, payload) ELSE early
          /\ pc' = [pc EXCEPT ![h] = "publish_loop"]
    /\ last' = NoEvent
    /\ UNCHANGED <<request_vars, config_vars, shutdown_vars, client_vars, transport_vars, _startup_messages, topic_vars, service_vars,
                   call_vars, replay_done, replayed, ghost_vars>>

(* ----------------------- Endpoint: call_service ------------------------ *)
\* the client and the call handle of the k-th call_service: two clients take
\* turns, and every call brings a call handle of its own
CallArgs(k) == <<IF k % 2 = 1 THEN "sc1" ELSE "sc2", <<"ch", k>>>>

\* the ids a peer puts in a service response: the ids of calls, and one of no call
ResponseIds == {to_string(k) : k \in FirstCallId..(FirstCallId + MaxCalls - 1)} \cup {<<"9", "9", "9">>}

\* the calls that entered call_service and have no id yet
CallsWaiting == {h \in HostThreads : pc[h] \in {"call_read", "call_write"}}

\* a critical section every thread may enter at any time
mutex_ignored == TRUE

\* std::lock_guard: the calling thread gets _next_service_call_id_mutex
mutex_acquirable == _next_service_call_id_mutex = "free"

\* Endpoint::call_service enters its critical section
CallLock ==
    /\ Running
    /\ ~_closing_down
    /\ \E h \in HostThreads, sv \in Services :
          /\ pc[h] = "idle"
          /\ Len(allocated) + Cardinality(CallsWaiting) < MaxCalls
          /\ mutex_acquirable
          /\ _next_service_call_id_mutex' = h
          /\ pc' = [pc EXCEPT ![h] = "call_read"]
          /\ LET arg == CallArgs(Len(allocated) + Cardinality(CallsWaiting) + 1)
             IN  frame' = [frame EXCEPT ![h] =
                              [NoEvent EXCEPT !.op = "call_service", !.service = sv,
                                              !.client = arg[1], !.call_handle = arg[2]]]
    /\ last' = NoEvent
    /\ UNCHANGED <<request_vars, config_vars, shutdown_vars, client_vars, transport_vars, _startup_messages, topic_vars, service_vars,
                   _service_request_info, _next_service_call_id, replay_vars, ghost_vars>>

\* id = _next_service_call_id++ : the read
CallReadId ==
    /\ Running
    /\ \E h \in HostThreads :
          /\ pc[h] = "call_read"
          /\ pc' = [pc EXCEPT ![h] = "call_write"]
          /\ frame' = [frame EXCEPT ![h].n = _next_service_call_id]
    /\ last' = NoEvent
    /\ UNCHANGED <<request_vars, config_vars, shutdown_vars, client_vars, transport_vars, _startup_messages, topic_vars, service_vars,
                   call_vars, replay_vars, ghost_vars>>

\* a critical section that leaves the ledger as it was
ledger_entry_skipped(id_str, info) == _service_request_info

\* _service_request_info[id_str] = {&client, std::move(call_handle)} in the
\* critical section of Endpoint::call_service
ledger_entry_written(id_str, info) == Put(_service_request_info, id_str, info)

\* id = _next_service_call_id++ : the write; then id_str = std::to_string(id), the
\* ledger entry, and the end of the critical section
CallAllocate ==
    /\ Running
    /\ \E h \in HostThreads :
          /\ pc[h] = "call_write"
          /\ LET id_str == to_string(frame[h].n)
                 info == [client |-> frame[h].client, call_handle |-> frame[h].call_handle]
             IN  /\ _next_service_call_id' = frame[h].n + 1
                 /\ _service_request_info' = ledger_entry_written(id_str, info)
                 /\ allocated' = Append(allocated, [id |-> id_str, client |-> info.client,
                                                    call_handle |-> info.call_handle,
                                                    conn |-> NoConn])
                 /\ answered' = IF id_str \in DOMAIN answered THEN answered
                                 ELSE Put(answered, id_str, 0)
                 /\ delivered' = IF id_str \in DOMAIN delivered THEN delivered
                                  ELSE Put(delivered, id_str, <<>>)
                 /\ frame' = [frame EXCEPT ![h].id = id_str]
          /\ _next_service_call_id_mutex' = "free"
          /\ pc' = [pc EXCEPT ![h] = "call_send"]
    /\ last' = NoEvent
    /\ UNCHANGED <<request_vars, config_vars, shutdown_vars, client_vars, transport_vars, _startup_messages, topic_vars, service_vars,
                   replay_vars, last_advert, close_handled, failure_run, crashed>>

\* the connection the call of thread h is sent on, NoConn if it is not sent
SentOn(h, payload_empty) ==
    LET sv == frame[h].service
    IN  IF sv \notin DOMAIN _service_provider_info \/ ~payload_sent(payload_empty)
        THEN NoConn
        ELSE _service_provider_info[sv].connection_handle

\* Endpoint::call_service after the critical section: the provider lookup, the
\* encoding and the send.  payload_empty: the encoder refuses the request.
CallSend ==
    /\ Running
    /\ \E h \in HostThreads, payload_empty \in BOOLEAN :
          /\ pc[h] = "call_send"
          /\ LET sv == frame[h].service
                 call == frame[h]
             IN  IF sv \notin DOMAIN _service_provider_info
                 THEN /\ last' = [call EXCEPT !.threw = "out_of_range"]
                      /\ UNCHANGED early
                 ELSE LET provider_info == _service_provider_info[sv]
                          c == provider_info.connection_handle
                      IN  IF ~payload_sent(payload_empty)
                          THEN /\ last' = [call EXCEPT !.empty = payload_empty]
                               /\ UNCHANGED early
                          ELSE IF c = NoConn
                               THEN /\ last' = [call EXCEPT !.threw = "bad_connection"]
                                    /\ UNCHANGED early
                               ELSE /\ last' = [call EXCEPT !.sends = <<c>>, !.conn = c,
                                                           !.empty = payload_empty]
                                    /\ early' = EarlyAfterSend(c,
                                           encode_call_service_msg(sv, provider_info.req_type, call.id))
          /\ allocated' = [k \in DOMAIN allocated |->
                              IF allocated[k].id = frame[h].id
                              THEN [allocated[k] EXCEPT !.conn = SentOn(h, payload_empty)]
                              ELSE allocated[k]]
          /\ pc' = [pc EXCEPT ![h] = "idle"]
          /\ frame' = [frame EXCEPT ![h] = NoEvent]
    /\ UNCHANGED <<request_vars, config_vars, shutdown_vars, client_vars, transport_vars, _startup_messages, topic_vars, service_vars,
                   call_vars, replay_done, replayed, last_advert, answered, delivered,
                   close_handled, failure_run, crashed>>

\* a response handler that keeps the ledger entry
ledger_kept(id) == _service_request_info

\* a response handler that empties the ledger when it does not know the id
ledger_dropped_on_unknown_id(id) ==
    IF id \in DOMAIN _service_request_info THEN Remove(_service_request_info, id) ELSE EmptyMap

\* Endpoint::receive_service_response_ws: the ledger afterwards
receive_service_response_ws(id) ==
    IF id \notin DOMAIN _service_request_info
    THEN _service_request_info
    ELSE Remove(_service_request_info, id)

\* the service names a peer puts in a service response: the services of calls, and
\* one nobody called
ResponseServices == Services \cup {"s0"}

\* a response handler that accepts a response from the connection the call was sent
\* on and from no other
accepted_from_provider_only(id) ==
    IF \/ id \notin DOMAIN _service_request_info
       \/ ~\E k \in DOMAIN allocated :
              allocated[k].id = id /\ allocated[k].conn = _tcp_connection
    THEN <<>>
    ELSE <<<<_service_request_info[id].client, _service_request_info[id].call_handle>>>>

\* Endpoint::receive_service_response_ws: the receive_response invocations, each the
\* client invoked and the call handle passed
receive_response_invoked(id) ==
    IF id \notin DOMAIN _service_request_info
    THEN <<>>
    ELSE <<<<_service_request_info[id].client, _service_request_info[id].call_handle>>>>

ReceiveServiceResponse ==
    /\ Running
    /\ \E c \in Conns, sv \in ResponseServices, id \in ResponseIds :
          /\ Incoming(c)
          /\ IF Unexpected(c)
             THEN UNCHANGED <<_service_request_info, answered, delivered>> /\ last' = NoEvent
             ELSE /\ _service_request_info' = receive_service_response_ws(id)
                  /\ answered' = IF id \in DOMAIN answered
                                  THEN [answered EXCEPT ![id] = IF @ < 2 THEN @ + 1 ELSE @]
                                  ELSE answered
                  /\ delivered' = IF id \in DOMAIN delivered /\ Len(delivered[id]) < 2
                                   THEN [delivered EXCEPT ![id] = @ \o receive_response_invoked(id)]
                                   ELSE delivered
                  /\ last' = [NoEvent EXCEPT !.op = "service_response", !.service = sv,
                                  !.id = id, !.conn = _tcp_connection,
                                  !.invoked = receive_response_invoked(id)]
    /\ conn_state' = after_frame
    /\ UNCHANGED <<request_vars, config_vars, shutdown_vars, client_vars, handler_pending, now, _startup_messages,
                   topic_vars, service_vars, _next_service_call_id,
                   _next_service_call_id_mutex, thread_vars, replay_vars, last_advert,
                   allocated, close_handled, failure_run, crashed>>

(* --------------- Endpoint: incoming service requests ------------------- *)
\* the ids a peer puts in a service request
RequestIds == {"r1", "r2"}

\* make_call_handle: the call handle of a service request
make_call_handle(service_name, request_type, reply_type, id, connection_handle) ==
    [service_name |-> service_name, request_type |-> request_type,
     reply_type |-> reply_type, id |-> id, connection_handle |-> connection_handle]

\* a request handler that calls the host back for a service nobody provides
invoked_without_proxy(service_name, id, connection_handle) ==
    <<make_call_handle(service_name, "", "", id, connection_handle)>>

\* Endpoint::receive_service_request_ws: the call handles the host's request
\* callback (*info.callback) is invoked with, in order
receive_service_request_ws(service_name, id, connection_handle) ==
    IF service_name \notin DOMAIN _client_proxy_info
    THEN <<>>
    ELSE LET info == _client_proxy_info[service_name]
         IN  <<make_call_handle(service_name, info.req_type, info.reply_type,
                                id, connection_handle)>>

\* the worker handles a service request frame of connection c; the host keeps
\* the call handle its callback is given
ReceiveServiceRequest ==
    /\ Running
    /\ \E c \in Conns, sv \in Services, id \in RequestIds :
          /\ Incoming(c)
          /\ IF Unexpected(c)
             THEN UNCHANGED call_handles /\ last' = NoEvent
             ELSE LET invoked == receive_service_request_ws(sv, id, _tcp_connection)
                  IN  /\ call_handles' = call_handles \cup {invoked[k] : k \in DOMAIN invoked}
                      /\ last' = [NoEvent EXCEPT !.op = "service_request", !.service = sv,
                                      !.id = id, !.conn = _tcp_connection,
                                      !.invoked = invoked]
    /\ conn_state' = after_frame
    /\ UNCHANGED <<declared, config_vars, shutdown_vars, client_vars, handler_pending, now,
                   _startup_messages, topic_vars, service_vars, call_vars, thread_vars,
                   replay_vars, ghost_vars>>

\* a reply that goes to the connection the client has now
current_connection(call_handle) == _tcp_connection

\* Endpoint::receive_response: the connection get_con_from_hdl gives for
\* call_handle.connection_handle
response_connection(call_handle) == call_handle.connection_handle

\* Endpoint::receive_response: the host answers a request with the call handle it
\* was given.  payload_empty: the encoder refuses the response.
ReceiveResponse ==
    /\ Running
    /\ ~_closing_down
    /\ \E call_handle \in call_handles, payload_empty \in BOOLEAN :
          LET connection_handle == response_connection(call_handle)
              payload == encode_service_response_msg(call_handle.service_name,
                                                     call_handle.reply_type, call_handle.id)
          IN  /\ call_handles' = call_handles \ {call_handle}
              /\ IF payload_empty \/ connection_handle = NoConn
                 THEN /\ last' = [NoEvent EXCEPT !.op = "receive_response",
                                      !.service = call_handle.service_name,
                                      !.call_handle = call_handle, !.empty = payload_empty]
                      /\ UNCHANGED early
                 ELSE /\ last' = [NoEvent EXCEPT !.op = "receive_response",
                                      !.service = call_handle.service_name,
                                      !.call_handle = call_handle,
                                      !.sends = <<connection_handle>>,
                                      !.payload = payload,
                                      !.state = conn_state[connection_handle]]
                      /\ early' = EarlyAfterSend(connection_handle, payload)
    /\ UNCHANGED <<declared, config_vars, shutdown_vars, client_vars, transport_vars, _startup_messages,
                   topic_vars, service_vars, call_vars, thread_vars, replay_done, replayed,
                   ghost_vars>>

(* --------------------------- specifications ---------------------------- *)
\* the client's connection life cycle, host registration and the startup replay
NextClient ==
    \/ Wait
    \/ Dial
    \/ TransportOpen
    \/ TransportFail
    \/ TransportClose
    \/ HandleOpening
    \/ HandleClose
    \/ HandleFailedConnection
    \/ Subscribe
    \/ StartupAdvertisement
    \/ RuntimeAdvertisement
    \/ CreateClientProxy

Spec == Init /\ [][NextClient]_vars

(* ------------------------- the startup replay -------------------------- *)
\* C1: when the opened event of a connection is handled, the startup log of that
\* moment is replayed on it, each message once and in append order, and no other
\* frame is put on the connection before the replayed startup messages
C1_ReplayBeforeAnyOtherFrame ==
    \A c \in replay_done :
        /\ IsPrefix(replayed[c], _startup_messages)
        /\ replayed[c] # <<>> => early[c] = <<>>

\* C8: the replay on a connection that opens begins with the replay of every
\* connection that opened before it, and equals it when the startup log still is
\* what was replayed then
C8_ReplayExtendsEarlierReplay ==
    [][\A c2 \in replay_done' \ replay_done : \A c1 \in replay_done :
          /\ IsPrefix(replayed[c1], replayed'[c2])
          /\ replayed[c1] = _startup_messages => replayed'[c2] = replayed[c1]]_vars

\* a second connection opened after a first one got a non-empty replay
C8_Witness ==
    \E c1 \in replay_done, c2 \in replay_done :
        /\ c1 # c2
        /\ conn_state[c1] = "closed"
        /\ replayed[c1] # <<>>
        /\ Len(replayed[c2]) > Len(replayed[c1])

\* the subscribing side: subscriptions, incoming advertisements and publications
NextSub ==
    \/ Wait
    \/ Dial
    \/ TransportOpen
    \/ TransportClose
    \/ HandleOpening
    \/ HandleClose
    \/ Subscribe
    \/ ReceiveTopicAdvertisement
    \/ ReceivePublication

SpecSub == Init /\ [][NextSub]_vars

(* --------------------- the subscribe blacklist ------------------------- *)
\* a connection the peer can still send frames on
Live(c) == conn_state[c] = "open"

\* C2: for every subscribed topic and every live connection, the connection is in
\* the topic's blacklist exactly when the last advertisement received from it for
\* the topic declared a type other than the topic's expected type; a connection
\* that never advertised the topic is not in the blacklist
C2_BlacklistIffLastAdvertMismatch ==
    \A t \in DOMAIN _topic_subscribe_info : \A c \in Conns :
        Live(c) =>
            (c \in _topic_subscribe_info[t].blacklist
                <=> /\ last_advert[t][c] # NoType
                    /\ last_advert[t][c] # _topic_subscribe_info[t].type)

\* C7: an incoming publication invokes the subscription callback once if its topic
\* is subscribed and its connection is not in the topic's blacklist, and not at all
\* otherwise; an advertisement of a subscribed topic with a wrong type puts its
\* connection in the blacklist, one with the expected type takes it out
C7_PublicationDeliveredIffNotBlacklisted ==
    /\ last.op = "publication" =>
          IF /\ last.topic \in DOMAIN _topic_subscribe_info
             /\ last.conn \notin _topic_subscribe_info[last.topic].blacklist
          THEN last.invoked = <<"subscription_callback">>
          ELSE last.invoked = <<>>
    /\ last.op = "topic_advertisement" /\ last.topic \in DOMAIN _topic_subscribe_info =>
          (last.conn \in _topic_subscribe_info[last.topic].blacklist
              <=> last.type # _topic_subscribe_info[last.topic].type)

\* a publication of a subscribed topic is dropped: its connection advertised a wrong type
C7_Witness ==
    /\ last.op = "publication"
    /\ last.invoked = <<>>
    /\ last.topic \in DOMAIN _topic_subscribe_info
    /\ last.conn \in _topic_subscribe_info[last.topic].blacklist
    /\ last_advert[last.topic][last.conn] # _topic_subscribe_info[last.topic].type

\* the publishing side: advertised topics, listeners and publish
NextPub ==
    \/ Wait
    \/ Dial
    \/ TransportOpen
    \/ TransportClose
    \/ HandleOpening
    \/ HandleClose
    \/ StartupAdvertisement
    \/ ReceiveSubscribeRequest
    \/ PublishBegin
    \/ PublishNext
    \/ PublishSend

SpecPub == Init /\ [][NextPub]_vars

(* ------------------------------ publish -------------------------------- *)
\* the connections a finished or running publish sent to
SentTo(call) == {call.sends[i] : i \in 1..Len(call.sends)}

\* the listener map of a topic as it is now
ListenersNow(t) ==
    IF t \in DOMAIN _topic_publish_info THEN DOMAIN _topic_publish_info[t].listeners ELSE {}

\* C3, for the values the encoder accepts and read in favour of a publish that runs
\* while the listener map changes: publish sends at most once to a connection, only
\* to connections that are in the topic's listener map when it sends to them, and
\* to every connection that is in the map from the call to the return
C3_PublishSendsOncePerListener ==
    last.op = "publish" /\ ~last.empty =>
        /\ last.strays = {}
        /\ Len(last.sends) = Cardinality(SentTo(last))
        /\ last.targets \cap ListenersNow(last.topic) \subseteq SentTo(last)

\* C9: a publish called after the closed event of a connection was handled issues
\* no send on that connection
C9_NoSendAfterCloseHandled ==
    /\ last.op = "publish" => SentTo(last) \cap DOMAIN last.before = {}
    /\ \A h \in PublishThreads :
          pc[h] # "idle" => SentTo(frame[h]) \cap DOMAIN frame[h].before = {}

\* a publish sent to a listener of a topic after the closed event of another
\* listener of that topic was handled
C9_Witness ==
    /\ last.op = "publish"
    /\ last.sends # <<>>
    /\ \E c \in DOMAIN last.before : last.topic \in last.before[c]

\* service calls: providers, the call ledger and the responses
NextCall ==
    \/ Wait
    \/ Dial
    \/ TransportOpen
    \/ TransportClose
    \/ HandleOpening
    \/ HandleClose
    \/ ReceiveServiceAdvertisement
    \/ CallLock
    \/ CallReadId
    \/ CallAllocate
    \/ CallSend
    \/ ReceiveServiceResponse

SpecCall == Init /\ [][NextCall]_vars

(* --------------------------- the call ledger --------------------------- *)
\* C5: for every allocated call id, the first response received with it invoked
\* receive_response of the recorded client once, with the call handle given to
\* call_service, and removed the ledger entry; no later response invoked a client;
\* until the first response the entry stays in the ledger
C5_FirstResponseDeliveredOnce ==
    \A k \in 1..Len(allocated) :
        LET call == allocated[k]
        IN  IF answered[call.id] = 0
            THEN /\ delivered[call.id] = <<>>
                 /\ call.id \in DOMAIN _service_request_info
                 /\ _service_request_info[call.id] =
                        [client |-> call.client, call_handle |-> call.call_handle]
            ELSE /\ delivered[call.id] = <<<<call.client, call.call_handle>>>>
                 /\ call.id \notin DOMAIN _service_request_info

\* a call id was answered twice and its client invoked once
C5_Witness ==
    \E k \in 1..Len(allocated) :
        /\ answered[allocated[k].id] = 2
        /\ Len(delivered[allocated[k].id]) = 1

\* C6: the k-th id allocated is the decimal string of k, so the ids are pairwise
\* distinct, increase in allocation order and none is allocated twice, also after
\* its ledger entry was removed
C6_IdsDistinctAndIncreasing ==
    /\ \A k \in 1..Len(allocated) : allocated[k].id = to_string(FirstCallId + k - 1)
    /\ \A j, k \in 1..Len(allocated) : j # k => allocated[j].id # allocated[k].id
    /\ DOMAIN _service_request_info \subseteq {allocated[k].id : k \in 1..Len(allocated)}

\* two callers are in call_service at the same time, each with its id, and the
\* ledger entry of the first id is removed already
C6_Witness ==
    /\ Len(allocated) = 2
    /\ \A h \in HostThreads : pc[h] = "call_send"
    /\ allocated[1].id \notin DOMAIN _service_request_info
    /\ allocated[2].id \in DOMAIN _service_request_info

\* C10: a service response whose id has no ledger entry invokes no client and
\* leaves the ledger, the id counter, the routing tables and the startup log as
\* they were
C10_UnknownResponseChangesNothing ==
    [][(last'.op = "service_response" /\ last'.id \notin DOMAIN _service_request_info)
          => /\ last'.invoked = <<>>
             /\ UNCHANGED <<_service_request_info, _next_service_call_id, topic_vars,
                            service_vars, _startup_messages>>]_vars

\* a response with the id of no call was handled while a call was pending
C10_Witness ==
    /\ last.op = "service_response"
    /\ last.id \notin {allocated[k].id : k \in 1..Len(allocated)}
    /\ last.invoked = <<>>
    /\ _service_request_info # EmptyMap
    /\ _service_provider_info # EmptyMap

\* the routing tables: everything that puts a connection in a table, and the close
NextTables ==
    \/ Wait
    \/ Dial
    \/ TransportOpen
    \/ TransportClose
    \/ HandleOpening
    \/ HandleClose
    \/ Subscribe
    \/ ReceiveTopicAdvertisement
    \/ ReceiveSubscribeRequest
    \/ ReceiveServiceAdvertisement

SpecTables == Init /\ [][NextTables]_vars

(* ------------------------ the closed connection ------------------------ *)
\* C4: right after the closed event of a connection is handled, the connection is
\* in no blacklist, is a key of no listener map and is the connection of no
\* service provider
C4_ClosedConnectionInNoTable ==
    last.op = "closed" => tables_holding(last.conn) = {}

\* the closed event of a connection that was in a blacklist, in a listener map and
\* the provider of a service has been handled
C4_Witness ==
    /\ last.op = "closed"
    /\ last.targets = {"blacklist", "listeners", "provider"}

\* the service providers: advertisements, unadvertisements and the close
NextProviders ==
    \/ Wait
    \/ Dial
    \/ TransportOpen
    \/ TransportClose
    \/ HandleOpening
    \/ HandleClose
    \/ ReceiveServiceAdvertisement
    \/ ReceiveServiceUnadvertisement

SpecProviders == Init /\ [][NextProviders]_vars

(* ------------------------- the provider table -------------------------- *)
\* C11: a service has at most one provider entry, and right after a service
\* advertisement is handled the entry of its service holds the connection and the
\* request and reply type of that advertisement, whatever entry was there before
C11_LastAdvertisementWins ==
    last.op = "service_advertisement" =>
        /\ last.service \in DOMAIN _service_provider_info
        /\ _service_provider_info[last.service] =
              [req_type |-> last.type, reply_type |-> last.reply,
               connection_handle |-> last.conn]
        /\ \A sv \in DOMAIN _service_provider_info :
              sv # last.service =>
                  sv \in DOMAIN last.before /\ _service_provider_info[sv] = last.before[sv]

\* an advertisement replaced the provider of a service by another connection with
\* other types
C11_Witness ==
    /\ last.op = "service_advertisement"
    /\ last.service \in DOMAIN last.before
    /\ last.before[last.service].connection_handle # last.conn
    /\ last.before[last.service].req_type # last.type

\* C12: a service unadvertisement removes the provider entry of its service if
\* the entry's connection is the one the unadvertisement came from; otherwise, and
\* when the service has no entry, it leaves the provider table as it was
C12_UnadvertisementRemovesOwnProviderOnly ==
    last.op = "service_unadvertisement" =>
        IF /\ last.service \in DOMAIN last.before
           /\ last.before[last.service].connection_handle = last.conn
        THEN _service_provider_info = Remove(last.before, last.service)
        ELSE _service_provider_info = last.before

\* an unadvertisement came from a connection other than the provider's and the
\* provider entry stayed
C12_Witness ==
    /\ last.op = "service_unadvertisement"
    /\ last.service \in DOMAIN last.before
    /\ last.before[last.service].connection_handle # last.conn
    /\ last.service \in DOMAIN _service_provider_info

(* ------------------- the call ledger and the close --------------------- *)
\* C13: handling the closed event of a connection leaves the call ledger as it
\* was, and the first response to a pending call id invokes the call's client
\* with its call handle, on whatever connection the response arrives
C13_CloseKeepsLedger ==
    [][/\ last'.op = "closed" => UNCHANGED _service_request_info
       /\ \A k \in 1..Len(allocated) :
             (/\ last'.op = "service_response"
              /\ last'.id = allocated[k].id
              /\ answered[allocated[k].id] = 0)
                 => last'.invoked = <<<<allocated[k].client, allocated[k].call_handle>>>>]_vars

\* a call was sent on a connection, the closed event of that connection was
\* handled, and the response arrived on another connection and was delivered
C13_Witness ==
    \E k \in 1..Len(allocated) :
        /\ allocated[k].conn \in DOMAIN close_handled
        /\ last.op = "service_response"
        /\ last.id = allocated[k].id
        /\ last.conn # allocated[k].conn
        /\ last.invoked = <<<<allocated[k].client, allocated[k].call_handle>>>>

\* the connection life cycle alone: the clock, spin_once, the transport and the
\* connection callbacks
NextLife ==
    \/ Tick
    \/ SpinOnce
    \/ TransportOpen
    \/ TransportFail
    \/ TransportClose
    \/ HandleOpening
    \/ HandleClose
    \/ HandleFailedConnection

SpecLife == Init /\ [][NextLife]_vars

(* ----------------------------- reconnect loop --------------------------- *)
\* the spin_once call just made issued a connect attempt
Attempted == last.invoked # <<>>

\* C14 as stated: a spin_once call issues a connect attempt when the client has no
\* connection object or its connection is closed and at least 2 seconds have
\* elapsed since the last attempt, issues none when less than 2 seconds have
\* elapsed since the last attempt, and every attempt records its time as the last
\* attempt time
C14_AttemptAfterAtLeastDelay ==
    last.op = "spin_once" =>
        /\ (last.state \in {"null", "closed"} /\ last.elapsed >= ReconnectDelay) => Attempted
        /\ (~last.first /\ last.elapsed < ReconnectDelay) => ~Attempted
        /\ Attempted => _last_connection_attempt = now

\* C14 amended: a spin_once call issues a connect attempt exactly when it is the
\* first call, or the client has no connection object or its connection is closed
\* and more than 2 seconds have elapsed since the last attempt; every attempt
\* records its time as the last attempt time
C14_AttemptAfterMoreThanDelay ==
    last.op = "spin_once" =>
        /\ Attempted <=> \/ last.first
                         \/ /\ last.state \in {"null", "closed"}
                            /\ last.elapsed > ReconnectDelay
        /\ Attempted => _last_connection_attempt = now

C14_Witness ==
    /\ last.op = "spin_once"
    /\ ~last.first
    /\ last.state = "closed"
    /\ last.elapsed = ReconnectDelay + 1
    /\ Attempted
    /\ _last_connection_attempt = now

\* the connections the transport has created and not yet closed
Unclosed == {c \in Conns : conn_state[c] \in {"connecting", "open", "closing"}}

\* C15: spin_once never requests a new connection while the current connection
\* object is in a state other than closed, so at most one created connection is
\* connecting, open or closing at any time, and it is the current one
C15_AtMostOneUnclosedConnection ==
    /\ Cardinality(Unclosed) <= 1
    /\ Unclosed \subseteq {_tcp_connection}
    /\ (last.op = "spin_once" /\ Attempted) => last.state \in {"null", "closed"}

C15_Witness ==
    /\ last.op = "spin_once"
    /\ Attempted
    /\ last.state = "closed"
    /\ \E c \in Conns : conn_state[c] = "closed" /\ Unclosed = {last.conn} /\ c # last.conn

\* C17: spin_once returns true exactly when the client holds a connection object
\* after the call, whatever the state of that connection, and false only when
\* there is no connection object
C17_ReturnsWhetherConnectionObjectExists ==
    last.op = "spin_once" =>
        last.returned <=> _tcp_connection # NoConn

C17_Witness ==
    /\ last.op = "spin_once"
    /\ last.returned
    /\ ~Attempted
    /\ conn_state[_tcp_connection] = "closed"
    /\ handler_pending[_tcp_connection] = "none"
    /\ _connection_failed

SpecLifeFair == SpecLife /\ WF_vars(Tick) /\ WF_vars(SpinOnce)

\* the client has dialled, holds no connection that could still open, the
\* transport can still create a connection and the clock can still pass the delay
\* counted from the attempt made at time t
AwaitingRetry(t) ==
    /\ _has_spun_once
    /\ _last_connection_attempt = t
    /\ \/ _tcp_connection = NoConn
       \/ conn_state[_tcp_connection] = "closed"
    /\ FreshConns # {}
    /\ t + ReconnectDelay < MaxTime

\* C16: when a connect attempt has failed or the connection has closed and the
\* host keeps calling spin_once, a new connect attempt is eventually issued
C16_RetryEventuallyIssued ==
    \A t \in 0..MaxTime : AwaitingRetry(t) ~> (_last_connection_attempt > t)

C16_Witness ==
    /\ last.op = "spin_once"
    /\ Attempted
    /\ last.state = "closed"
    /\ _connection_failed
    /\ _last_connection_attempt > 0
    /\ last.conn # NoConn

(* -------------------------------- shutdown ------------------------------ *)
\* the connection life cycle followed by the destruction of the client
NextShutdown ==
    \/ Wait
    \/ Dial
    \/ TransportOpen
    \/ TransportFail
    \/ TransportClose
    \/ HandleOpening
    \/ HandleClose
    \/ HandleFailedConnection
    \/ ShutdownBegin
    \/ ShutdownClose
    \/ ShutdownPoll
    \/ ShutdownStop

SpecShutdown == Init /\ [][NextShutdown]_vars

\* the worker is stopped and joined only after the close that was issued has been
\* acknowledged or the time limit has passed
StopAfterCloseAndPoll ==
    /\ shutdown_pc = "poll" => conn_state[_tcp_connection] \in {"closing", "closed"}
    /\ (last.op = "shutdown_stop" /\ last.conn # NoConn /\ conn_state[last.conn] = "closing")
           => shutdown_elapsed > ShutdownTimeout
    /\ shutdown_elapsed <= ShutdownTimeout + PollInterval

\* C19: the shutdown of the client always terminates and follows the order: a
\* normal close on the connection, polling until the connection is closed or
\* more than 10 seconds have passed, and only then the stop of the perpetual loop
\* and the join of the worker; it is never abandoned on the way
C19_ShutdownCompletesInOrder ==
    /\ StopAfterCloseAndPoll
    /\ _closing_down => ~crashed

\* incoming frames on a subscribed and advertised topic, and the destruction of
\* the client
NextFrames ==
    \/ Dial
    \/ TransportOpen
    \/ TransportClose
    \/ HandleOpening
    \/ HandleClose
    \/ Subscribe
    \/ StartupAdvertisement
    \/ ReceiveTopicAdvertisement
    \/ ReceivePublication
    \/ ReceiveSubscribeRequest
    \/ ShutdownBegin
    \/ ShutdownClose
    \/ ShutdownPoll
    \/ ShutdownStop

SpecFrames == Init /\ [][NextFrames]_vars

\* the steps in which a receive_*_ws handler has handled a frame
FrameOps == {"topic_advertisement", "publication", "subscribe_request",
             "unsubscribe_request",
             "service_advertisement", "service_unadvertisement", "service_response"}

C21_CallServiceReturnsNormally ==
    last.op = "call_service" => last.threw = ""

(* ------------------------------ registration ---------------------------- *)
\* registration by the host and the replay of the startup log on a connection
NextRegistration ==
    \/ Dial
    \/ TransportOpen
    \/ HandleOpening
    \/ Subscribe
    \/ StartupAdvertisement
    \/ CreateClientProxy

SpecRegistration == Init /\ [][NextRegistration]_vars

\* the step is a subscribe, or a create_client_proxy, that repeats a registration
\* the endpoint holds, with the same arguments
RepeatedSubscribe ==
    /\ last'.op = "subscribe"
    /\ last'.topic \in DOMAIN _topic_subscribe_info
    /\ _topic_subscribe_info[last'.topic].type = last'.type

RepeatedClientProxy ==
    /\ last'.op = "create_client_proxy"
    /\ last'.service \in DOMAIN _client_proxy_info
    /\ _client_proxy_info[last'.service] = [req_type |-> last'.type, reply_type |-> last'.reply]

\* C22 as stated: a subscribe, or a create_client_proxy, repeated with the same
\* arguments leaves the routing tables and the startup log as the first call left
\* them
C22_RegistrationIdempotent ==
    [][(RepeatedSubscribe \/ RepeatedClientProxy)
           => UNCHANGED <<topic_vars, service_vars, call_vars, _startup_messages>>]_vars

\* C22 amended: a subscribe, or a create_client_proxy, repeated with the same
\* arguments leaves the routing tables as the first call left them and appends
\* its startup message to the startup log once more
C22_RegistrationIdempotentOnTables ==
    [][/\ RepeatedSubscribe =>
             /\ UNCHANGED <<topic_vars, service_vars, call_vars>>
             /\ _startup_messages' = Append(_startup_messages,
                     encode_subscribe_msg(last'.topic, last'.type, ""))
       /\ RepeatedClientProxy =>
             /\ UNCHANGED <<topic_vars, service_vars, call_vars>>
             /\ _startup_messages' = Append(_startup_messages,
                     encode_advertise_service_msg(last'.service, last'.type, last'.reply, ""))]_vars

C22_Witness ==
    /\ last.op = "subscribe"
    /\ Len(_startup_messages) = 2
    /\ _startup_messages[1] = _startup_messages[2]
    /\ _startup_messages[2] = encode_subscribe_msg(last.topic, last.type, "")

(* ------------------------------ configuration --------------------------- *)
\* the port key is missing, no integer, or negative
InvalidPort ==
    \/ ~configuration.port.present
    \/ ~configuration.port.integer
    \/ configuration.port.value < 0

\* C23: configure returns failure (false) whenever the port key is missing or
\* invalid (no integer, or negative), for the TCP and for the TLS variant
C23_InvalidPortFailsConfigure ==
    (configured # "none" /\ InvalidPort) => configured = "false"

\* C24: configure returns false and creates no transport endpoint when the
\* encoding key is present with a value other than json, compared without regard
\* to case; when the key is absent, the JSON encoding is used
C24_UnknownEncodingFailsConfigure ==
    configured # "none" =>
        LET enc == configuration.encoding
            json == \/ ~enc.present
                    \/ enc.value \in {<<"j", "s", "o", "n">>, <<"J", "S", "O", "N">>,
                                       <<"J", "s", "o", "n">>}
        IN  /\ ~json => /\ configured = "false"
                        /\ _tcp_endpoint = "null"
                        /\ _tls_endpoint = "null"
                        /\ _encoding = "null"
            /\ json => _encoding = "json"

C24_Witness ==
    /\ configured = "false"
    /\ configuration.encoding = [present |-> TRUE, value |-> <<"c", "d", "r">>]
    /\ configuration.port = [present |-> TRUE, integer |-> TRUE, value |-> 80]
    /\ _tcp_endpoint = "null"

(* ------------------------------- listeners ------------------------------ *)
\* advertised topics and the subscription and unsubscription requests of peers
NextListeners ==
    \/ Wait
    \/ Dial
    \/ TransportOpen
    \/ TransportClose
    \/ HandleOpening
    \/ HandleClose
    \/ StartupAdvertisement
    \/ ReceiveSubscribeRequest
    \/ ReceiveUnsubscribeRequest

SpecListeners == Init /\ [][NextListeners]_vars

\* C25: a subscription request for a topic that has a TopicPublishInfo, giving a
\* type name other than the recorded type of the topic, leaves every listener map
\* unchanged
C25_MismatchedRequestIgnored ==
    [][(/\ last'.op = "subscribe_request"
        /\ last'.topic \in DOMAIN _topic_publish_info
        /\ last'.type # NoType
        /\ last'.type # _topic_publish_info[last'.topic].type)
           => UNCHANGED <<_topic_publish_info, crashed>>]_vars

C25_Witness ==
    /\ last.op = "subscribe_request"
    /\ last.type # NoType
    /\ last.topic \in DOMAIN _topic_publish_info
    /\ _topic_publish_info[last.topic].type \notin {NoType, last.type}
    /\ last.conn \notin DOMAIN _topic_publish_info[last.topic].listeners

\* C26: a subscription request for topic T from connection C with id I completes
\* normally and leaves I in the id set of C in the listener map of T when T has
\* no TopicPublishInfo yet, when the request gives no type, and when the request
\* gives the recorded type of T
C26_RequestRecordsListener ==
    [][(/\ last'.op = "subscribe_request"
        /\ \/ last'.topic \notin DOMAIN _topic_publish_info
           \/ last'.type = NoType
           \/ last'.type = _topic_publish_info[last'.topic].type)
           => /\ ~crashed'
              /\ last'.topic \in DOMAIN _topic_publish_info'
              /\ last'.conn \in DOMAIN _topic_publish_info'[last'.topic].listeners
              /\ last'.id \in _topic_publish_info'[last'.topic].listeners[last'.conn]]_vars

\* no connection of a listener map has an empty set of subscription ids
NoEmptyIdSet ==
    \A t \in DOMAIN _topic_publish_info :
        \A c \in DOMAIN _topic_publish_info[t].listeners :
            _topic_publish_info[t].listeners[c] # {}

\* what an unsubscription with the id of the step does to a listener map that
\* holds the connection of the step
UnsubscriptionEffect ==
    (/\ last'.op = "unsubscribe_request"
     /\ last'.topic \in DOMAIN _topic_publish_info
     /\ last'.conn \in DOMAIN _topic_publish_info[last'.topic].listeners)
        => LET listeners == _topic_publish_info[last'.topic].listeners
               ids == listeners[last'.conn]
               after == _topic_publish_info'[last'.topic].listeners
           IN  /\ last'.id = "" => after = Remove(listeners, last'.conn)
               /\ (last'.id # "" /\ last'.id \notin ids) => after = listeners
               /\ (last'.id # "" /\ last'.id \in ids) =>
                     after = IF ids = {last'.id}
                             THEN Remove(listeners, last'.conn)
                             ELSE [listeners EXCEPT ![last'.conn] = ids \ {last'.id}]

\* C27: in every reachable state no connection of a listener map has an empty set
\* of subscription ids; an unsubscription with an empty id removes the whole
\* connection, one with id I removes I alone and removes the connection when its
\* set becomes empty, and one with an id the connection never registered leaves
\* the map unchanged
C27_NoEmptyListenerEntry ==
    []NoEmptyIdSet /\ [][UnsubscriptionEffect]_vars

C27_Witness ==
    /\ last.op = "unsubscribe_request"
    /\ last.id = "i1"
    /\ last.topic \in DOMAIN _topic_publish_info
    /\ last.conn \in DOMAIN _topic_publish_info[last.topic].listeners
    /\ _topic_publish_info[last.topic].listeners[last.conn] = {""}

(* ------------------------ inbound service requests --------------------- *)
\* service requests of peers and the host's replies, next to the subscription
\* frames of peers
NextRequests ==
    \/ Wait
    \/ Dial
    \/ TransportOpen
    \/ TransportClose
    \/ HandleOpening
    \/ HandleClose
    \/ StartupAdvertisement
    \/ CreateClientProxy
    \/ ReceiveUnsubscribeRequest
    \/ ReceiveServiceRequest
    \/ ReceiveResponse

SpecRequests == Init /\ [][NextRequests]_vars

\* C28: every service request with id X arriving on connection C for a provided
\* service invokes the host's request callback exactly once, with the call handle
\* (service name, request type, reply type, X, C); a later receive_response with
\* that handle sends a response with id X on C and on no other connection, also
\* when C is no longer the current connection
C28_RequestCallbackAndReplyRoute ==
    /\ (last.op = "service_request" /\ last.service \in DOMAIN _client_proxy_info)
          => last.invoked =
                <<make_call_handle(last.service, _client_proxy_info[last.service].req_type,
                                   _client_proxy_info[last.service].reply_type,
                                   last.id, last.conn)>>
    /\ (last.op = "receive_response" /\ ~last.empty)
          => /\ last.sends = <<last.call_handle.connection_handle>>
             /\ last.payload = encode_service_response_msg(last.call_handle.service_name,
                                   last.call_handle.reply_type, last.call_handle.id)
    /\ \A call_handle \in call_handles :
          /\ call_handle.service_name \in DOMAIN _client_proxy_info
          /\ call_handle.id \in RequestIds
          /\ call_handle.connection_handle \in Conns

C28_Witness ==
    /\ last.op = "receive_response"
    /\ last.sends # <<>>
    /\ _tcp_connection # NoConn
    /\ last.call_handle.connection_handle # _tcp_connection
    /\ conn_state[_tcp_connection] = "open"

\* C29: a service request for a service with no client proxy entry, and an
\* unsubscription for a topic with no TopicPublishInfo, each invoke no host
\* callback, send nothing, and leave the routing tables, the ledger and the
\* startup log unchanged
C29_UnknownTargetIgnored ==
    [][(\/ /\ last'.op = "service_request"
           /\ last'.service \notin DOMAIN _client_proxy_info
        \/ /\ last'.op = "unsubscribe_request"
           /\ last'.topic \notin DOMAIN _topic_publish_info)
           => /\ last'.invoked = <<>>
              /\ last'.sends = <<>>
              /\ UNCHANGED <<topic_vars, service_vars, _service_request_info,
                             _startup_messages, early, call_handles, crashed>>]_vars

C29_Witness ==
    /\ last.op = "service_request"
    /\ last.service \notin DOMAIN _client_proxy_info
    /\ DOMAIN _topic_publish_info # {}
    /\ _startup_messages # <<>>

(* -------------------- the ledger entry and the call frame -------------- *)
\* the call frame carrying id has been sent
CallFrameSent(id) ==
    \E k \in DOMAIN allocated : allocated[k].id = id /\ allocated[k].conn # NoConn

\* no response frame carrying id has been handled so far
Unanswered(id) == id \in DOMAIN answered /\ answered[id] = 0

\* C30: in every interleaving of call_service with the worker's frame handling the
\* ledger entry of id X exists when the call frame carrying X is sent, so the
\* response to X finds the entry
C30_LedgerEntryBeforeCallFrame ==
    /\ [][(last'.op = "call_service" /\ last'.sends # <<>> /\ Unanswered(last'.id))
             => last'.id \in DOMAIN _service_request_info]_vars
    /\ [][(last'.op = "service_response" /\ CallFrameSent(last'.id)
                                         /\ Unanswered(last'.id))
             => /\ last'.id \in DOMAIN _service_request_info
                /\ last'.invoked # <<>>]_vars

C30_Witness ==
    /\ last.op = "service_response"
    /\ last.invoked # <<>>
    /\ CallFrameSent(last.id)
    /\ answered[last.id] = 1
    /\ \E h \in HostThreads : pc[h] = "call_send"

(* ------------------------- the refused payload ------------------------- *)
\* publish and call_service on one connection, with values the encoder accepts and
\* values it refuses; the topics are those subscription requests have entered, and
\* the responses are those that carry the id of a pending call
ResponseToPendingCall == ReceiveServiceResponse /\ last'.invoked # <<>>

NextEmpty ==
    \/ Dial
    \/ TransportOpen
    \/ HandleOpening
    \/ ReceiveSubscribeRequest
    \/ ReceiveServiceAdvertisement
    \/ PublishBegin
    \/ PublishNext
    \/ PublishSend
    \/ CallLock
    \/ CallReadId
    \/ CallAllocate
    \/ CallSend
    \/ ResponseToPendingCall

SpecEmpty == Init /\ [][NextEmpty]_vars

\* a publish or a call_service whose payload the encoder returned empty has ended
RefusedPayload == last.op \in {"publish", "call_service"} /\ last.empty

\* the ledger loses the entry of an id only in the step that handles a service
\* response carrying that id
EntryLeavesOnResponseOnly ==
    \A id \in DOMAIN _service_request_info :
        id \notin DOMAIN _service_request_info'
            => last'.op = "service_response" /\ last'.id = id

\* C31: when the encoder returns an empty string, publish and call_service send
\* nothing and return normally; call_service has consumed the id all the same, and
\* the ledger entry of the id stays until a response carrying the id is handled
C31_EmptyPayloadSilentlyDropped ==
    /\ [](RefusedPayload => last.sends = <<>> /\ last.threw = "" /\ ~crashed)
    /\ []((RefusedPayload /\ last.op = "call_service")
            => /\ _next_service_call_id > last.n
               /\ \E k \in DOMAIN allocated :
                     allocated[k].id = last.id /\ allocated[k].conn = NoConn
               /\ last.id \in DOMAIN _service_request_info \/ answered[last.id] > 0)
    /\ [][EntryLeavesOnResponseOnly]_vars

C31_Witness ==
    /\ last.op = "call_service"
    /\ last.empty
    /\ last.id \in DOMAIN _service_request_info
    /\ answered[last.id] = 0
    /\ \E t \in DOMAIN _topic_publish_info : _topic_publish_info[t].listeners # EmptyMap

(* ---------------------------- the startup log -------------------------- *)
\* every registration of the host, the connection and its replay of the log
NextLog ==
    \/ Dial
    \/ TransportOpen
    \/ HandleOpening
    \/ Subscribe
    \/ Advertise
    \/ StartupAdvertisement
    \/ CreateClientProxy
    \/ CreateClientProxyServiceType
    \/ CreateServiceProxy

SpecLog == Init /\ [][NextLog]_vars

\* the message the registration of the step appends to the startup log, <<>> if
\* it appends none
Appended ==
    CASE last'.op = "subscribe" ->
            <<encode_subscribe_msg(last'.topic, last'.type, "")>>
      [] last'.op = "startup_advertisement" ->
            <<encode_advertise_msg(last'.topic, last'.type, "")>>
      [] last'.op = "create_client_proxy" /\ last'.reply # "" ->
            <<encode_advertise_service_msg(last'.service, last'.type, last'.reply, "")>>
      [] OTHER -> <<>>

\* C32: the startup log holds, in the order of the calls, exactly one message for
\* every subscribe, every create_client_proxy with a reply type and every
\* startup_advertisement; advertise, create_service_proxy and create_client_proxy
\* without a reply type append nothing
C32_OneStartupMessagePerRegistration ==
    [][_startup_messages' = _startup_messages \o Appended]_vars

C32_Witness ==
    /\ last.op = "create_client_proxy"
    /\ last.reply = ""
    /\ Len(_startup_messages) = 2
    /\ _startup_messages[1][1] = "subscribe"
    /\ _startup_messages[2][1] = "advertise_service"
    /\ DOMAIN _service_provider_info # {}

(* ------------------------ the log is append-only ----------------------- *)
\* registrations next to the life cycle of the connection, failed attempts
\* included, and to incoming frames
NextAppend ==
    \/ Wait
    \/ Dial
    \/ TransportOpen
    \/ TransportFail
    \/ TransportClose
    \/ HandleOpening
    \/ HandleClose
    \/ HandleFailedConnection
    \/ Subscribe
    \/ StartupAdvertisement
    \/ CreateClientProxy
    \/ ReceiveSubscribeRequest

SpecAppend == Init /\ [][NextAppend]_vars

\* C33: the startup log is append-only: in every step the log before the step is a
\* prefix of the log after it, so no incoming frame, no opening, close or failure
\* of a connection and no host operation removes, reorders or rewrites an entry
C33_StartupLogAppendOnly ==
    [][IsPrefix(_startup_messages, _startup_messages')]_vars

C33_Witness ==
    /\ last.op = "subscribe"
    /\ Len(_startup_messages) = 2
    /\ _startup_messages[1] # _startup_messages[2]
    /\ \E c \in Conns : conn_state[c] = "closed"
    /\ _tcp_connection # NoConn /\ conn_state[_tcp_connection] = "open"

(* ------------------- responses are not checked for origin -------------- *)
\* C34: a service response with a pending id X is delivered to the client recorded
\* for X and erases the ledger entry of X, whichever connection it arrives on and
\* whichever service name it carries; the connection need not be the provider the
\* call for X was sent to
C34_ResponseOriginNotChecked ==
    [][(last'.op = "service_response" /\ last'.id \in DOMAIN _service_request_info)
          => /\ last'.invoked = <<<<_service_request_info[last'.id].client,
                                     _service_request_info[last'.id].call_handle>>>>
             /\ _service_request_info' = Remove(_service_request_info, last'.id)]_vars

C34_Witness ==
    /\ last.op = "service_response"
    /\ last.invoked # <<>>
    /\ last.service \notin Services
    /\ \E k \in DOMAIN allocated :
          /\ allocated[k].id = last.id
          /\ allocated[k].conn \notin {NoConn, last.conn}

(* ------------------ publish races with the worker ---------------------- *)
\* publish on a host thread next to the worker's handling of subscriptions,
\* unsubscriptions and the closed event
NextRace ==
    \/ Wait
    \/ Dial
    \/ TransportOpen
    \/ TransportClose
    \/ HandleOpening
    \/ HandleClose
    \/ ReceiveSubscribeRequest
    \/ ReceiveUnsubscribeRequest
    \/ PublishBegin
    \/ PublishNext
    \/ PublishSend

SpecRace == Init /\ [][NextRace]_vars

\* connection c is in the listener map of topic t in the publish table info
ListensIn(info, t, c) == t \in DOMAIN info /\ c \in DOMAIN info[t].listeners

\* thread h is between taking a listener from the map and the send on it
AboutToSend(h) == pc[h] = "publish_send"

\* C35: no lock keeps the worker from the listener map while publish runs: after
\* publish(T) has taken connection H from T's listener map, the worker's handling of
\* closed(H) or of an unsubscription of H can remove H from the map, publish stays
\* where it is, and its next step issues the send on H all the same
C35_PublishSendsAfterRemoval ==
    [][\A h \in PublishThreads :
          AboutToSend(h) =>
             LET t == frame[h].topic
                 H == frame[h].conn
             IN  /\ (ListensIn(_topic_publish_info, t, H)
                        /\ ~ListensIn(_topic_publish_info', t, H))
                       => /\ last'.op \in {"closed", "unsubscribe_request"}
                          /\ pc'[h] = pc[h]
                          /\ frame'[h] = frame[h]
                 /\ (pc'[h] # pc[h] /\ ~frame[h].empty)
                       => /\ frame'[h].sends = Append(frame[h].sends, H)
                          /\ ~ListensIn(_topic_publish_info, t, H)
                                => H \in frame'[h].strays]_vars

\* a publish has returned after a send on a connection that had left the listener
\* map, removed by an unsubscription
C35_Witness ==
    /\ last.op = "publish"
    /\ last.strays # {}
    /\ \A c \in last.strays : conn_state[c] = "open" /\ c \notin DOMAIN close_handled

(* ------------------------ topic unadvertisements ----------------------- *)
\* the subscribing side with the unadvertisements of peers
NextUnadvertise ==
    \/ Wait
    \/ Dial
    \/ TransportOpen
    \/ TransportClose
    \/ HandleOpening
    \/ HandleClose
    \/ Subscribe
    \/ ReceiveTopicAdvertisement
    \/ ReceiveTopicUnadvertisement
    \/ ReceivePublication

SpecUnadvertise == Init /\ [][NextUnadvertise]_vars

\* connection c is on the blacklist of topic t in the subscribe table info
BlacklistedIn(info, t, c) == t \in DOMAIN info /\ c \in info[t].blacklist

\* C36: an incoming topic unadvertisement leaves every table unchanged; a connection
\* on the blacklist of a topic stays there until it advertises the topic with the
\* expected type or its closed event is handled
C36_UnadvertisementChangesNothing ==
    [][/\ last'.op = "topic_unadvertisement"
            => UNCHANGED <<topic_vars, service_vars, _service_request_info,
                           _startup_messages, call_handles>>
       /\ \A t \in Topics, c \in Conns :
             (BlacklistedIn(_topic_subscribe_info, t, c)
                 /\ ~BlacklistedIn(_topic_subscribe_info', t, c))
                => \/ /\ last'.op = "topic_advertisement"
                      /\ last'.topic = t /\ last'.conn = c
                      /\ last'.type = _topic_subscribe_info[t].type
                   \/ last'.op = "closed" /\ last'.conn = c]_vars

C36_Witness ==
    /\ last.op = "topic_unadvertisement"
    /\ BlacklistedIn(_topic_subscribe_info, last.topic, last.conn)

(* -------------------- handles held by the routing tables --------------- *)
\* the connection handles the routing tables hold: blacklists, listener maps and
\* the providers of services
StoredHandles ==
    UNION {_topic_subscribe_info[t].blacklist : t \in DOMAIN _topic_subscribe_info}
    \cup UNION {DOMAIN _topic_publish_info[t].listeners : t \in DOMAIN _topic_publish_info}
    \cup ({_service_provider_info[sv].connection_handle :
               sv \in DOMAIN _service_provider_info} \ {NoConn})

\* C37: in every reachable state, under every interleaving of spin_once with the
\* worker's callbacks, every connection handle held by a subscribe blacklist, a
\* listener map or a ServiceProviderInfo is the client's current connection object
C37_StoredHandlesAreCurrent ==
    \A c \in StoredHandles : c = _tcp_connection

(* ---------------- listeners recorded ahead of the advertisement -------- *)
\* the publishing side with the type each recorded subscription request declared:
\* requests can arrive before or after startup_advertisement gives the topic its type
NextDeclared ==
    \/ Wait
    \/ Dial
    \/ TransportOpen
    \/ HandleOpening
    \/ StartupAdvertisement
    \/ ReceiveDeclaredSubscribeRequest
    \/ ReceiveUnsubscribeRequest
    \/ PublishBegin
    \/ PublishNext
    \/ PublishSend

SpecDeclared == Init /\ [][NextDeclared]_vars

\* thread h is about to send a publication of topic t on connection c, a listener
\* of t in the map
SendsToListener(h, t, c) ==
    /\ pc[h] = "publish_send"
    /\ ~frame[h].empty
    /\ frame[h].topic = t
    /\ frame[h].conn = c
    /\ t \in DOMAIN _topic_publish_info
    /\ c \in DOMAIN _topic_publish_info[t].listeners

\* C38: publish on topic T never sends to a listener whose recorded subscription
\* request declared a type different from the type T was advertised with, the
\* listeners recorded before startup_advertisement set T's type included
C38_PublishOnlyToMatchingListeners ==
    \A h \in PublishThreads, t \in Topics, c \in Conns :
        (/\ SendsToListener(h, t, c)
         /\ <<t, c>> \in DOMAIN declared
         /\ declared[<<t, c>>] # NoType
         /\ _topic_publish_info[t].type # NoType)
            => declared[<<t, c>>] = _topic_publish_info[t].type

(* ------------------- exclusion of the ledger accesses ------------------ *)
\* thread h is in the critical section of call_service with the insertion
\* _service_request_info[id_str] = ... as its next statement
InsertingInLedger(h) == pc[h] = "call_write"

\* this step is the worker's receive_service_response_ws: find(id) in the ledger, and
\* erase(it) when the id is pending
WorkerAccessesLedger == last'.op = "service_response"

\* C39: the accesses to the in-flight call ledger exclude one another: no two host
\* threads are at the insertion of call_service together, and the worker's lookup and
\* erase in receive_service_response_ws never run while a host thread is at the insertion
C39_LedgerAccessesExclusive ==
    /\ [](\A h1, h2 \in HostThreads :
             (InsertingInLedger(h1) /\ InsertingInLedger(h2)) => h1 = h2)
    /\ [][WorkerAccessesLedger => \A h \in HostThreads : ~InsertingInLedger(h)]_vars

=============================================================================
